---------------------------- MODULE Spec2Model ----------------------------
(***************************************************************************)
(* Model of the indexing-and-retrieval engine of coding_agent:             *)
(*   tools/indexing_agent.py     (CodeElement, IndexingAgent)              *)
(*   tools/vector_search_tool.py (VectorSearchTool and its tool wrappers)  *)
(*                                                                         *)
(* Text is modelled as a sequence of tokens.  The tokens " ", "\n", "#",   *)
(* ":", DQ and "'" stand for themselves (single characters); every other   *)
(* token is an indivisible run of characters holding none of them.         *)
(* A path is the sequence of its parts (pathlib's Path.parts); str(path)   *)
(* is one-to-one on the paths used here, so the parts stand for the string.*)
(***************************************************************************)
EXTENDS Integers, Sequences, FiniteSets, TLC

(***************************************************************************)
(* Bounds of the model.                                                    *)
(***************************************************************************)
MaxRuns == 3
MaxEdits == 1
MaxSearchRuns == 1
MaxResults == 3
MaxCalls == 2
MaxMdLines == 4
MaxChunkLines == 52
MaxAgents == 2

(***************************************************************************)
(* Text helpers: str.strip, str.split('\n'), '\n'.join, list slicing.      *)
(***************************************************************************)
DQ == "\""
Whitespace == {" ", "\n"}

RECURSIVE LStrip(_, _)
LStrip(s, chars) ==
    IF s = <<>> THEN s
    ELSE IF Head(s) \in chars THEN LStrip(Tail(s), chars) ELSE s

RECURSIVE RStrip(_, _)
RStrip(s, chars) ==
    IF s = <<>> THEN s
    ELSE IF s[Len(s)] \in chars THEN RStrip(SubSeq(s, 1, Len(s) - 1), chars) ELSE s

Strip(s, chars) == RStrip(LStrip(s, chars), chars)

\* content.split('\n'): always at least one line, the last one possibly empty
RECURSIVE SplitLines(_)
SplitLines(s) ==
    IF \A i \in 1..Len(s) : s[i] # "\n" THEN <<s>>
    ELSE LET k == CHOOSE i \in 1..Len(s) : s[i] = "\n" /\ \A j \in 1..(i - 1) : s[j] # "\n"
         IN  <<SubSeq(s, 1, k - 1)>> \o SplitLines(SubSeq(s, k + 1, Len(s)))

\* '\n'.join(lines)
RECURSIVE JoinLines(_)
JoinLines(ls) ==
    IF ls = <<>> THEN <<>>
    ELSE IF Len(ls) = 1 THEN ls[1]
    ELSE ls[1] \o <<"\n">> \o JoinLines(Tail(ls))

\* Python slice xs[a:b] with 0 <= a, rendered on 1-based sequences
Slice(xs, a, b) ==
    LET hi == IF b > Len(xs) THEN Len(xs) ELSE b
    IN  IF a >= hi THEN <<>> ELSE SubSeq(xs, a + 1, hi)

Min(a, b) == IF a < b THEN a ELSE b

RECURSIVE SeqToSet(_)
SeqToSet(s) == IF s = <<>> THEN {} ELSE {Head(s)} \cup SeqToSet(Tail(s))

(***************************************************************************)
(* hashlib.md5(...).hexdigest(): collisions of MD5 itself are set aside,   *)
(* so the digest is represented by the text that is hashed.                *)
(***************************************************************************)
MD5(text) == text

(***************************************************************************)
(* CodeElement (indexing_agent.py 15-43).                                  *)
(***************************************************************************)
\* faulty variant: the content is left out of the hashed text
_compute_hash_NoContent(name, element_type, content) ==
    MD5(name \o <<":">> \o <<element_type>>)

\* f"{self.name}:{self.element_type}:{self.content}" hashed
_compute_hash(name, element_type, content) ==
    MD5(name \o <<":">> \o <<element_type>> \o <<":">> \o content)

CodeElement(name, element_type, file_path, start_line, end_line, content, docstring) ==
    [name         |-> name,
     element_type |-> element_type,
     file_path    |-> file_path,
     start_line   |-> start_line,
     end_line     |-> end_line,
     content      |-> content,
     docstring    |-> docstring,
     hash         |-> _compute_hash(name, element_type, content)]

\* the metadata of a stored element: exactly the eight fields of the element
to_dict(e) ==
    [name         |-> e.name,
     element_type |-> e.element_type,
     file_path    |-> e.file_path,
     start_line   |-> e.start_line,
     end_line     |-> e.end_line,
     content      |-> e.content,
     docstring    |-> e.docstring,
     hash         |-> e.hash]

(***************************************************************************)
(* The source tree.  A file of the tree is in one of these states; the     *)
(* text of each version is what open(...).read() returns for it.           *)
(*   "absent"      no such file                                            *)
(*   "unreadable"  found by rglob, but open() raises (a directory named    *)
(*                 like a source file, or a file without read permission)  *)
(***************************************************************************)
PyFile == <<"a.py">>
MdFile == <<"b.md">>
RelFiles == {PyFile, MdFile}

suffix(rel) == IF rel = PyFile THEN ".py" ELSE ".md"

Text(version) ==
    CASE version = "py1" ->
           <<"import", " ", "os", "\n",
             "class", " ", "K", ":", "\n",
             " ", " ", "pass", "\n">>
      [] version = "py2" ->
           <<"import", " ", "os", "\n",
             "class", " ", "K", ":", "\n",
             " ", " ", "x", " ", "=", " ", "1", "\n">>
      [] version = "pydoc" ->
           <<"class", " ", "K", ":", "\n",
             " ", " ", DQ, "doc", DQ, "\n">>
      [] version = "pytwo" ->
           <<"import", " ", "a", ";", " ", "import", " ", "b", "\n">>
      [] version = "pyfoo" ->
           <<"import", " ", "os", "\n",
             "\n",
             "def", " ", "foo", "(", ")", ":", "\n",
             " ", " ", DQ, "hi", DQ, "\n",
             " ", " ", "x", " ", "=", " ", "1", "\n",
             " ", " ", "return", " ", "x", "\n">>
      [] version = "pylate" ->
           <<"class", " ", "K", ":", "\n",
             " ", " ", "x", " ", "=", " ", "1", "\n",
             " ", " ", DQ, "late", DQ, "\n">>
      [] version = "js1" ->
           <<"import", " ", "x", " ", "from", " ", "'", "y", "'", ";", "\n",
             "class", " ", "K", " ", "{", "\n",
             " ", " ", "m", "(", ")", " ", "{", "}", "\n",
             "}", "\n",
             "function", " ", "f", "(", ")", " ", "{", "}", "\n">>
      [] version = "md1" ->
           <<"#", " ", "A", "\n",
             "x", "\n">>
      [] version = "md2" ->
           <<"#", " ", "A", "\n",
             "y", "\n">>
      [] OTHER -> <<>>

(***************************************************************************)
(* tree_sitter: parser.parse(content.encode()) is the external grammar     *)
(* parser.  Its syntax tree for each Python text of the model is given     *)
(* here; rows are 0-based, columns count tokens.                           *)
(***************************************************************************)
Node(type, srow, scol, erow, ecol, nameChild, children) ==
    [type |-> type, start_point |-> <<srow, scol>>, end_point |-> <<erow, ecol>>,
     nameChild |-> nameChild, children |-> children]

Leaf(type, srow, scol, erow, ecol) == Node(type, srow, scol, erow, ecol, 0, <<>>)

ImportNode(row, c0, c1) ==
    Node("import_statement", row, c0, row, c1, 0,
         << Leaf("import", row, c0, row, c0 + 1),
            Node("dotted_name", row, c0 + 2, row, c1, 0,
                 << Leaf("identifier", row, c0 + 2, row, c1) >>) >>)

ClassNode(row, erow, ecol, body) ==
    Node("class_definition", row, 0, erow, ecol, 2,
         << Leaf("class", row, 0, row, 1),
            Leaf("identifier", row, 2, row, 3),
            Leaf(":", row, 3, row, 4),
            Node("block", row + 1, 2, erow, ecol, 0, body) >>)

\* a function definition `def name():` that starts on `row`
FunctionNode(row, erow, ecol, body) ==
    Node("function_definition", row, 0, erow, ecol, 2,
         << Leaf("def", row, 0, row, 1),
            Leaf("identifier", row, 2, row, 3),
            Leaf("parameters", row, 3, row, 5),
            Leaf(":", row, 5, row, 6),
            Node("block", row + 1, 2, erow, ecol, 0, body) >>)

tree_sitter_parse(content) ==
    CASE content = Text("py1") ->
           Node("module", 0, 0, 3, 0, 0,
                << ImportNode(0, 0, 3),
                   ClassNode(1, 2, 3, << Leaf("pass_statement", 2, 2, 2, 3) >>) >>)
      [] content = Text("py2") ->
           Node("module", 0, 0, 3, 0, 0,
                << ImportNode(0, 0, 3),
                   ClassNode(1, 2, 7,
                       << Node("expression_statement", 2, 2, 2, 7, 0,
                               << Node("assignment", 2, 2, 2, 7, 0,
                                       << Leaf("identifier", 2, 2, 2, 3),
                                          Leaf("=", 2, 4, 2, 5),
                                          Leaf("integer", 2, 6, 2, 7) >>) >>) >>) >>)
      [] content = Text("pydoc") ->
           Node("module", 0, 0, 2, 0, 0,
                << ClassNode(0, 1, 5,
                       << Node("expression_statement", 1, 2, 1, 5, 0,
                               << Leaf("string", 1, 2, 1, 5) >>) >>) >>)
      [] content = Text("pytwo") ->
           Node("module", 0, 0, 1, 0, 0,
                << ImportNode(0, 0, 3), Leaf(";", 0, 3, 0, 4), ImportNode(0, 5, 8) >>)
      [] content = Text("pyfoo") ->
           Node("module", 0, 0, 6, 0, 0,
                << ImportNode(0, 0, 3),
                   FunctionNode(2, 5, 5,
                       << Node("expression_statement", 3, 2, 3, 5, 0,
                               << Leaf("string", 3, 2, 3, 5) >>),
                          Node("expression_statement", 4, 2, 4, 7, 0,
                               << Node("assignment", 4, 2, 4, 7, 0,
                                       << Leaf("identifier", 4, 2, 4, 3),
                                          Leaf("=", 4, 4, 4, 5),
                                          Leaf("integer", 4, 6, 4, 7) >>) >>),
                          Node("return_statement", 5, 2, 5, 5, 0,
                               << Leaf("return", 5, 2, 5, 3),
                                  Leaf("identifier", 5, 4, 5, 5) >>) >>) >>)
      [] content = Text("pylate") ->
           Node("module", 0, 0, 3, 0, 0,
                << ClassNode(0, 2, 5,
                       << Node("expression_statement", 1, 2, 1, 7, 0,
                               << Node("assignment", 1, 2, 1, 7, 0,
                                       << Leaf("identifier", 1, 2, 1, 3),
                                          Leaf("=", 1, 4, 1, 5),
                                          Leaf("integer", 1, 6, 1, 7) >>) >>),
                          Node("expression_statement", 2, 2, 2, 5, 0,
                               << Leaf("string", 2, 2, 2, 5) >>) >>) >>)
      \* the JavaScript grammar; the TypeScript grammars give the same
      \* declaration nodes for this text
      [] content = Text("js1") ->
           Node("program", 0, 0, 5, 0, 0,
                << Node("import_statement", 0, 0, 0, 10, 0,
                        << Leaf("import", 0, 0, 0, 1),
                           Node("import_clause", 0, 2, 0, 3, 0,
                                << Leaf("identifier", 0, 2, 0, 3) >>),
                           Leaf("from", 0, 4, 0, 5),
                           Leaf("string", 0, 6, 0, 9),
                           Leaf(";", 0, 9, 0, 10) >>),
                   Node("class_declaration", 1, 0, 3, 1, 2,
                        << Leaf("class", 1, 0, 1, 1),
                           Leaf("identifier", 1, 2, 1, 3),
                           Node("class_body", 1, 4, 3, 1, 0,
                                << Leaf("{", 1, 4, 1, 5),
                                   Node("method_definition", 2, 2, 2, 8, 1,
                                        << Leaf("property_identifier", 2, 2, 2, 3),
                                           Leaf("formal_parameters", 2, 3, 2, 5),
                                           Leaf("statement_block", 2, 6, 2, 8) >>),
                                   Leaf("}", 3, 0, 3, 1) >>) >>),
                   Node("function_declaration", 4, 0, 4, 8, 2,
                        << Leaf("function", 4, 0, 4, 1),
                           Leaf("identifier", 4, 2, 4, 3),
                           Leaf("formal_parameters", 4, 3, 4, 5),
                           Leaf("statement_block", 4, 6, 4, 8) >>) >>)
      [] OTHER -> Node("module", 0, 0, 0, 0, 0, <<>>)

(***************************************************************************)
(* SourceParser: indexing_agent.py 150-312.  An Optional[CodeElement] is   *)
(* a sequence of length 0 (None) or 1.                                     *)
(***************************************************************************)
\* lines[row][c0:c1] of the node that is field 'name' of `node`
NameText(node, lines) ==
    LET name_node == node.children[node.nameChild]
    IN  Slice(lines[name_node.start_point[1] + 1],
              name_node.start_point[2], name_node.end_point[2])

\* the 'string' children of the expression statements of one block, in order
RECURSIVE StringsOfStmts(_)
StringsOfStmts(stmts) ==
    IF stmts = <<>> THEN <<>>
    ELSE (IF Head(stmts).type = "expression_statement"
          THEN SelectSeq(Head(stmts).children, LAMBDA c : c.type = "string")
          ELSE <<>>) \o StringsOfStmts(Tail(stmts))

RECURSIVE StringsOfBlocks(_)
StringsOfBlocks(children) ==
    IF children = <<>> THEN <<>>
    ELSE (IF Head(children).type = "block"
          THEN StringsOfStmts(Head(children).children)
          ELSE <<>>) \o StringsOfBlocks(Tail(children))

\* returns the docstring text, or <<>> for None (the caller's `or ""`)
_extract_python_docstring(node, lines) ==
    LET found == StringsOfBlocks(node.children)
    IN  IF found = <<>> THEN <<>>
        ELSE LET expr_child == found[1]
                 docstring_lines == Slice(lines, expr_child.start_point[1],
                                          expr_child.end_point[1] + 1)
             IN  Strip(Strip(Strip(Strip(JoinLines(docstring_lines), Whitespace),
                                   {DQ}), {"'"}), Whitespace)

_extract_python_element(node, lines, file_path) ==
    LET start_line == node.start_point[1] + 1
        end_line   == node.end_point[1] + 1
        content    == JoinLines(Slice(lines, start_line - 1, end_line))
    IN  CASE node.type = "function_def" ->
               << CodeElement(NameText(node, lines), "function", file_path,
                              start_line, end_line, content,
                              _extract_python_docstring(node, lines)) >>
          [] node.type = "class_definition" ->
               << CodeElement(NameText(node, lines), "class", file_path,
                              start_line, end_line, content,
                              _extract_python_docstring(node, lines)) >>
          [] node.type \in {"import_statement", "import_from_statement"} ->
               << CodeElement(<<"import">>, "import", file_path,
                              start_line, end_line, content, <<>>) >>
          [] OTHER -> <<>>

_extract_js_ts_element(node, lines, file_path) ==
    LET start_line == node.start_point[1] + 1
        end_line   == node.end_point[1] + 1
        content    == JoinLines(Slice(lines, start_line - 1, end_line))
    IN  CASE node.type = "function_declaration" /\ node.nameChild # 0 ->
               << CodeElement(NameText(node, lines), "function", file_path,
                              start_line, end_line, content, <<>>) >>
          [] node.type = "class_declaration" /\ node.nameChild # 0 ->
               << CodeElement(NameText(node, lines), "class", file_path,
                              start_line, end_line, content, <<>>) >>
          [] node.type = "import_statement" ->
               << CodeElement(<<"import">>, "import", file_path,
                              start_line, end_line, content, <<>>) >>
          [] OTHER -> <<>>

PyDeclTypes == {"function_def", "class_definition", "import_statement",
                "import_from_statement"}
JsDeclTypes == {"function_declaration", "method_definition", "class_declaration",
                "import_statement"}

RECURSIVE traverse_node(_, _, _, _)
RECURSIVE TraverseChildren(_, _, _, _)
traverse_node(node, lines, file_path, file_ext) ==
    (IF file_ext = ".py" /\ node.type \in PyDeclTypes
       THEN _extract_python_element(node, lines, file_path)
     ELSE IF file_ext \in {".js", ".ts", ".tsx"} /\ node.type \in JsDeclTypes
       THEN _extract_js_ts_element(node, lines, file_path)
     ELSE <<>>)
    \o TraverseChildren(node.children, lines, file_path, file_ext)
TraverseChildren(children, lines, file_path, file_ext) ==
    IF children = <<>> THEN <<>>
    ELSE traverse_node(Head(children), lines, file_path, file_ext)
         \o TraverseChildren(Tail(children), lines, file_path, file_ext)

_parse_with_tree_sitter(file_path, content, file_ext) ==
    traverse_node(tree_sitter_parse(content), SplitLines(content), file_path, file_ext)

\* any(l.strip() for l in section), for a non-empty section
HasContent(section) ==
    section # <<>> /\ \E k \in 1..Len(section) : Strip(section[k], Whitespace) # <<>>

\* faulty variant: the section is taken to start on its heading line
MarkdownSection_FromHeading(heading, file_path, start_line, end_line, section) ==
    CodeElement(heading, "markdown_section", file_path, start_line - 1, end_line,
                Strip(JoinLines(section), Whitespace), <<>>)

MarkdownSection(heading, file_path, start_line, end_line, section) ==
    CodeElement(heading, "markdown_section", file_path, start_line, end_line,
                Strip(JoinLines(section), Whitespace), <<>>)

\* the loop of _parse_markdown from line i (1-based) on, with its loop state
RECURSIVE MarkdownLoop(_, _, _, _, _, _)
MarkdownLoop(lines, i, file_path, current_heading, current_section_start, current_section) ==
    IF i > Len(lines)
    THEN IF HasContent(current_section)
         THEN << MarkdownSection(current_heading, file_path, current_section_start,
                                 Len(lines), current_section) >>
         ELSE <<>>
    ELSE LET line == lines[i]
             stripped == Strip(line, Whitespace)
         IN  IF stripped # <<>> /\ Head(stripped) = "#"
             THEN (IF HasContent(current_section)
                   THEN << MarkdownSection(current_heading, file_path,
                                           current_section_start, i - 1,
                                           current_section) >>
                   ELSE <<>>)
                  \o MarkdownLoop(lines, i + 1, file_path,
                                  Strip(Strip(line, {"#"}), Whitespace), i + 1, <<>>)
             ELSE MarkdownLoop(lines, i + 1, file_path, current_heading,
                               current_section_start, Append(current_section, line))

_parse_markdown(file_path, content) ==
    MarkdownLoop(SplitLines(content), 1, file_path, <<"Introduction">>, 1, <<>>)

chunk_size == 50

\* the loop of _simple_text_chunks for i in range(i, len(lines), chunk_size)
RECURSIVE ChunkLoop(_, _, _)
ChunkLoop(lines, i, file_path) ==
    IF i >= Len(lines) THEN <<>>
    ELSE LET chunk_content == JoinLines(Slice(lines, i, i + chunk_size))
         IN  (IF Strip(chunk_content, Whitespace) # <<>>
              THEN << CodeElement(<<"chunk_", ToString(i \div chunk_size)>>, "text_chunk",
                                  file_path, i + 1, Min(i + chunk_size, Len(lines)),
                                  chunk_content, <<>>) >>
              ELSE <<>>)
             \o ChunkLoop(lines, i + chunk_size, file_path)

_simple_text_chunks(file_path, content) == ChunkLoop(SplitLines(content), 0, file_path)

\* the parsers of _init_parsers
ParserExts == {".py", ".js", ".ts", ".tsx"}

\* the dispatch of _index_file on the file's extension
ParseFile(file_path, content, file_ext) ==
    IF file_ext \in ParserExts THEN _parse_with_tree_sitter(file_path, content, file_ext)
    ELSE IF file_ext = ".md" THEN _parse_markdown(file_path, content)
    ELSE _simple_text_chunks(file_path, content)

(***************************************************************************)
(* FileSummarizer: _create_file_summary (indexing_agent.py 314-330).       *)
(* The dict of counts is built by iterating over a set of str, whose       *)
(* iteration order depends on the string hash seed of the Python process   *)
(* (randomised per process): hash_seed selects the order.                  *)
(***************************************************************************)
Seeds == {0, 1}

KindRank(kind) ==
    CASE kind = "function" -> 1
      [] kind = "class" -> 2
      [] kind = "import" -> 3
      [] kind = "markdown_section" -> 4
      [] OTHER -> 5

RECURSIVE SetOrder(_, _)
SetOrder(kinds, hash_seed) ==
    IF kinds = {} THEN <<>>
    ELSE LET first == CHOOSE k \in kinds :
                        \A other \in kinds :
                            IF hash_seed = 0 THEN KindRank(k) <= KindRank(other)
                                             ELSE KindRank(k) >= KindRank(other)
         IN  <<first>> \o SetOrder(kinds \ {first}, hash_seed)

CountOf(elements, kind) == Len(SelectSeq(elements, LAMBDA e : e.element_type = kind))

\* ", ".join(f"{k}: {v}" for k, v in elements_by_type.items())
RECURSIVE JoinCounts(_, _)
JoinCounts(order, elements) ==
    IF order = <<>> THEN <<>>
    ELSE <<Head(order), ":", " ", ToString(CountOf(elements, Head(order)))>>
         \o (IF Len(order) = 1 THEN <<>> ELSE <<",", " ">>)
         \o JoinCounts(Tail(order), elements)

ElementKinds(elements) == {elements[k].element_type : k \in 1..Len(elements)}

_create_file_summary(project_root, rel, content, elements, hash_seed) ==
    LET order == SetOrder(ElementKinds(elements), hash_seed)
    IN  [file_path            |-> rel,
         file_type            |-> suffix(rel),
         line_count           |-> Len(SplitLines(content)),
         element_count        |-> Len(elements),
         elements_by_type_str |-> IF order = <<>> THEN <<"none">>
                                  ELSE JoinCounts(order, elements),
         summary              |-> <<"File", " ", rel[Len(rel)], " ", "contains", " ",
                                    ToString(Len(elements)), " ", "code elements">>]

(***************************************************************************)
(* VectorStore: a chromadb collection is the set of its entries.  An       *)
(* embedding is a function of the document it is computed from, so the     *)
(* document stands for both.                                               *)
(***************************************************************************)
Entry(id, document, metadata) == [id |-> id, document |-> document, metadata |-> metadata]

Ids(entries) == {e.id : e \in entries}

BatchIds(batch) == {batch[k].id : k \in 1..Len(batch)}

\* chromadb validates the ids of one call: a repeated id is rejected
\* (DuplicateIDError) and nothing is written
UniqueIds(batch) ==
    \A j, k \in 1..Len(batch) : batch[j].id = batch[k].id => j = k

\* faulty variant: an insert that leaves the entries already stored under the ids
upsert_KeepsOld(entries, batch) == entries \cup SeqToSet(batch)

\* faulty variant: the batch replaces whatever the collection holds
upsert_ReplacesAll(entries, batch) == SeqToSet(batch)

\* Collection.upsert: insert-or-overwrite keyed by id
upsert(entries, batch) ==
    {e \in entries : e.id \notin BatchIds(batch)} \cup SeqToSet(batch)

\* faulty variant: the storage key without the element's hash
ElementId_NoHash(e) == <<e.file_path, e.start_line, <<>>>>

\* the entry _store_elements builds for one element
ElementId(e) == <<e.file_path, e.start_line, e.hash>>

ElementEntry(e) ==
    Entry(ElementId(e),
          e.name \o <<" ", e.element_type, "\n">> \o e.content
              \o (IF e.docstring # <<>> THEN <<"\n">> \o e.docstring ELSE <<>>),
          to_dict(e))

RECURSIVE ElementBatch(_)
ElementBatch(elements) ==
    IF elements = <<>> THEN <<>>
    ELSE <<ElementEntry(Head(elements))>> \o ElementBatch(Tail(elements))

\* _store_elements (332-361): the collection afterwards
_store_elements(entries, elements) ==
    IF elements = <<>> THEN entries ELSE upsert(entries, ElementBatch(elements))

\* _store_elements raises when the store rejects the batch
StoreElementsRaises(elements) == elements # <<>> /\ ~UniqueIds(ElementBatch(elements))

\* faulty variant: the summary is added beside whatever the collection holds
_store_file_summary_Add(entries, summary) ==
    entries \cup {Entry(summary.file_path, summary.summary, summary)}

\* _store_file_summary (363-373): the collection afterwards
_store_file_summary(entries, summary) ==
    upsert(entries, << Entry(summary.file_path, summary.summary, summary) >>)

(***************************************************************************)
(* tools/file_system_tool.py on a POSIX system.  A path string is the      *)
(* sequence of its tokens, "/" being a token of its own; a location of the *)
(* disk is the sequence of the names that lead to it from "/".  Symbolic   *)
(* links are set aside: the location a path resolves to is the one         *)
(* os.path.abspath computes.                                               *)
(***************************************************************************)
\* os.path.abspath of the directory two levels above the tools package
PROJECT_ROOT == <<"/", "ws", "/", "proj">>

\* str.split('/')
RECURSIVE SplitPath(_)
SplitPath(s) ==
    IF \A k \in 1..Len(s) : s[k] # "/" THEN <<s>>
    ELSE LET k == CHOOSE j \in 1..Len(s) : s[j] = "/" /\ \A m \in 1..(j - 1) : s[m] # "/"
         IN  <<SubSeq(s, 1, k - 1)>> \o SplitPath(SubSeq(s, k + 1, Len(s)))

\* '/'.join(names)
RECURSIVE JoinPath(_)
JoinPath(names) ==
    IF names = <<>> THEN <<>>
    ELSE IF Len(names) = 1 THEN names[1]
    ELSE names[1] \o <<"/">> \o JoinPath(Tail(names))

isabs(path) == path # <<>> /\ path[1] = "/"

\* os.path.join(a, b) for a not ending in "/"
os_path_join(a, b) == IF isabs(b) THEN b ELSE a \o <<"/">> \o b

\* the loop of posixpath.normpath over the names of an absolute path
RECURSIVE NormNames(_, _)
NormNames(names, kept) ==
    IF names = <<>> THEN kept
    ELSE IF Head(names) \in {<<>>, <<".">>} THEN NormNames(Tail(names), kept)
    ELSE IF Head(names) = <<"..">>
         THEN NormNames(Tail(names),
                        IF kept = <<>> THEN <<>> ELSE SubSeq(kept, 1, Len(kept) - 1))
    ELSE NormNames(Tail(names), Append(kept, Head(names)))

\* the location an absolute path string names
LocationOf(path) == NormNames(SplitPath(path), <<>>)

\* os.path.abspath of an absolute path: normpath
os_path_abspath(path) == <<"/">> \o JoinPath(LocationOf(path))

\* str.startswith
startswith(s, prefix) == Len(s) >= Len(prefix) /\ SubSeq(s, 1, Len(prefix)) = prefix

\* _is_path_safe (7-10)
_is_path_safe(path) ==
    startswith(os_path_abspath(os_path_join(PROJECT_ROOT, path)), PROJECT_ROOT)

\* os.path.dirname
os_path_dirname(path) ==
    LET slashes == {k \in 1..Len(path) : path[k] = "/"}
        last == CHOOSE k \in slashes : \A m \in slashes : m <= k
        head == SubSeq(path, 1, last)
    IN  IF slashes = {} THEN <<>>
        ELSE IF \A k \in 1..Len(head) : head[k] = "/" THEN head
        ELSE RStrip(head, {"/"})

\* The disk maps each location to what is there: nothing, a directory, or a
\* regular file and the bytes it holds.
Absent == [kind |-> "absent", bytes |-> <<>>]
Dir == [kind |-> "dir", bytes |-> <<>>]
File(bytes) == [kind |-> "file", bytes |-> bytes]

Locations ==
    { <<>>, << <<"ws">> >>, << <<"etc">> >>, << <<"etc">>, <<"passwd">> >>,
      << <<"ws">>, <<"out.txt">> >>,
      << <<"ws">>, <<"proj">> >>, << <<"ws">>, <<"proj">>, <<"a.txt">> >>,
      << <<"ws">>, <<"proj">>, <<"d">> >>, << <<"ws">>, <<"proj">>, <<"d">>, <<"a.txt">> >>,
      << <<"ws">>, <<"proj", "2">> >>, << <<"ws">>, <<"proj", "2">>, <<"a.txt">> >> }

Parent(loc) == IF loc = <<>> THEN <<>> ELSE SubSeq(loc, 1, Len(loc) - 1)

StateOf(d, loc) == IF loc \in Locations THEN d[loc].kind ELSE "absent"

\* The kernel's walk along the names of an absolute path, from location loc
\* on.  It ends with errno "" at the location the path names, or with
\* ENOENT or ENOTDIR at the location it could not pass and the names left.
\* With create (os.makedirs(..., exist_ok=True)) a missing directory is made
\* on the way.
RECURSIVE Walk(_, _, _, _)
Walk(d, names, loc, create) ==
    LET End(errno) == [errno |-> errno, loc |-> loc, rest |-> names, disk |-> d]
    IN  IF StateOf(d, loc) = "absent" THEN End("ENOENT")
        ELSE IF names = <<>> THEN End("")
        ELSE IF StateOf(d, loc) # "dir" THEN End("ENOTDIR")
        ELSE IF Head(names) \in {<<>>, <<".">>} THEN Walk(d, Tail(names), loc, create)
        ELSE IF Head(names) = <<"..">> THEN Walk(d, Tail(names), Parent(loc), create)
        ELSE LET next == Append(loc, Head(names))
             IN  IF create /\ StateOf(d, next) = "absent" /\ next \in Locations
                 THEN Walk([d EXCEPT ![next] = Dir], Tail(names), next, create)
                 ELSE Walk(d, Tail(names), next, create)

\* open(path, 'r').read() decodes with universal newlines: "\r\n" and "\r"
\* are read as "\n"
RECURSIVE ReadText(_)
ReadText(bytes) ==
    IF bytes = <<>> THEN <<>>
    ELSE IF Head(bytes) = "\r"
         THEN <<"\n">> \o ReadText(IF Len(bytes) >= 2 /\ bytes[2] = "\n"
                                   THEN SubSeq(bytes, 3, Len(bytes)) ELSE Tail(bytes))
    ELSE <<Head(bytes)>> \o ReadText(Tail(bytes))

\* open(path, 'w').write(content): "\n" is written as os.linesep, which is "\n"
WriteText(content) == content

ToolResult(op, path, content, kind, text, changed) ==
    [op |-> op, path |-> path, content |-> content, kind |-> kind, text |-> text,
     changed |-> changed]

\* read_file (12-22).  kind "outside": the 'outside the allowed project
\* directory' error; "not_found": 'File not found'; "unexpected": 'An
\* unexpected error occurred'; "ok": the content, in text.
read_file(d, file_path) ==
    LET R(kind, text) == ToolResult("read_file", file_path, <<>>, kind, text, FALSE)
        at == Walk(d, SplitPath(os_path_join(PROJECT_ROOT, file_path)), <<>>, FALSE)
    IN  IF ~_is_path_safe(file_path) THEN R("outside", <<>>)
        ELSE IF at.errno = "ENOENT" THEN R("not_found", <<>>)
        ELSE IF at.errno # "" \/ d[at.loc].kind = "dir" THEN R("unexpected", <<>>)
        ELSE R("ok", ReadText(d[at.loc].bytes))

\* write_file (24-36): the disk after the call, and what the call returns
\* (kind "ok": 'Successfully wrote to')
write_file(d, file_path, content) ==
    LET full_path == os_path_join(PROJECT_ROOT, file_path)
        made == Walk(d, SplitPath(os_path_dirname(full_path)), <<>>, TRUE)
        at == Walk(made.disk, SplitPath(full_path), <<>>, FALSE)
        R(kind, after) ==
            [disk |-> after,
             result |-> ToolResult("write_file", file_path, content, kind, <<>>, after # d)]
        written == [made.disk EXCEPT ![at.loc] = File(WriteText(content))]
    IN  IF ~_is_path_safe(file_path) THEN R("outside", d)
        ELSE IF made.errno # "" THEN R("unexpected", made.disk)
        ELSE IF at.errno = "" THEN
                 IF made.disk[at.loc].kind = "dir" THEN R("unexpected", made.disk)
                 ELSE R("ok", written)
        ELSE IF at.errno = "ENOENT" /\ at.rest = <<>> /\ at.loc \in Locations
          THEN R("ok", written)
        ELSE R("unexpected", made.disk)

\* the calls the model makes
Paths ==
    { <<"a.txt">>, <<"d", "/", "a.txt">>, <<"d", "/", "..", "/", "a.txt">>, <<>>,
      <<"..", "/", "out.txt">>, <<"/", "etc", "/", "passwd">>,
      <<"..", "/", "proj", "2", "/", "a.txt">>,
      <<"/", "ws", "/", "proj", "2", "/", "a.txt">>,
      <<"/", "ws", "/", "proj", "/", "a.txt">> }

Contents == { <<>>, <<"x">>, <<"x", "\n", "y", "\n">>, <<"x", "\r", "y">>,
              <<"x", "\r", "\n", "y">> }

NoToolCall == ToolResult("none", <<>>, <<>>, "none", <<>>, FALSE)
NoWrite == [path |-> <<"none">>, content |-> <<>>]

Disks ==
    {d \in [Locations -> {Absent, Dir, File(<<"old">>), File(<<"secret">>)}] :
        /\ \A loc \in {<<>>, << <<"ws">> >>, << <<"etc">> >>, << <<"ws">>, <<"proj">> >>,
                       << <<"ws">>, <<"proj", "2">> >>} : d[loc] = Dir
        /\ d[<< <<"etc">>, <<"passwd">> >>] = File(<<"secret">>)
        /\ d[<< <<"ws">>, <<"out.txt">> >>] = Absent
        /\ d[<< <<"ws">>, <<"proj">>, <<"a.txt">> >>] \in {Absent, File(<<"old">>)}
        /\ d[<< <<"ws">>, <<"proj">>, <<"d">> >>] \in {Absent, Dir}
        /\ d[<< <<"ws">>, <<"proj">>, <<"d">>, <<"a.txt">> >>] = Absent
        /\ d[<< <<"ws">>, <<"proj", "2">>, <<"a.txt">> >>] \in {Absent, File(<<"secret">>)}}

EmptyProject ==
    [loc \in Locations |->
        IF loc \in {<<>>, << <<"ws">> >>, << <<"etc">> >>, << <<"ws">>, <<"proj">> >>,
                    << <<"ws">>, <<"proj", "2">> >>} THEN Dir
        ELSE IF loc = << <<"etc">>, <<"passwd">> >> THEN File(<<"secret">>)
        ELSE Absent]

(***************************************************************************)
(* Discovery: index_codebase 109-114.  Here a name is the sequence of its  *)
(* characters and a path the sequence of its names (Path.parts); the tree  *)
(* is the set of the files below the root, each by its path from the root. *)
(* Symbolic links and directories named like source files are set aside.   *)
(***************************************************************************)
code_extensions == { <<".", "p", "y">>, <<".", "j", "s">>, <<".", "t", "s">>, <<".", "t", "s", "x">>, <<".", "j", "s", "x">>, <<".", "m", "d">> }

ignore_dirs ==
    { <<".", "g", "i", "t">>,
      <<"_", "_", "p", "y", "c", "a", "c", "h", "e", "_", "_">>,
      <<"n", "o", "d", "e", "_", "m", "o", "d", "u", "l", "e", "s">>,
      <<".", "v", "e", "n", "v">>,
      <<"v", "e", "n", "v">>,
      <<".", "a", "d", "k", "_", "i", "n", "d", "e", "x">> }

\* str.endswith
endswith(s, end) == Len(s) >= Len(end) /\ SubSeq(s, Len(s) - Len(end) + 1, Len(s)) = end

\* self.project_root.rglob(f"*{ext}"): the files whose name ends with ext,
\* each as the path that begins with the root
rglob(root, tree, ext) == {root \o rel : rel \in {r \in tree : endswith(r[Len(r)], ext)}}

\* any(ignore_dir in f.parts for ignore_dir in ignore_dirs)
InIgnoredDir(f) == \E ignore_dir \in ignore_dirs : \E k \in 1..Len(f) : f[k] = ignore_dir

\* lines 110-118: how often the loop indexes each file of the tree, the
\* file named as indexed_files names it, by its path relative to the root
DiscoverFiles(root, tree) ==
    [rel \in tree |->
        IF InIgnoredDir(root \o rel) THEN 0
        ELSE Cardinality({ext \in code_extensions : root \o rel \in rglob(root, tree, ext)})]

\* the roots and files the discovery is run on
ScanRoots == { <<>>, << <<"p", "r", "o", "j">> >>, << <<"/">>, <<"h", "o", "m", "e">>, <<"v", "e", "n", "v">>, <<"p", "r", "o", "j">> >> }

ScanFiles ==
    { << <<"a", ".", "p", "y">> >>,
      << <<"d", "o", "c", "s">>, <<"b", ".", "m", "d">> >>,
      << <<"s", "r", "c">>, <<"c", ".", "t", "s", "x">> >>,
      << <<"n", "o", "d", "e", "_", "m", "o", "d", "u", "l", "e", "s">>, <<"d", ".", "j", "s">> >>,
      << <<"s", "r", "c">>, <<"v", "e", "n", "v">>, <<"e", ".", "t", "s">> >>,
      << <<"n", "o", "t", "e", "s", ".", "t", "x", "t">> >>,
      << <<"s", "r", "c">>, <<"g", ".", "j", "s", "x">> >> }

(***************************************************************************)
(* tools/lsp_tool.py: the diagnostics and the validation built on them.    *)
(* A text is a sequence of tokens as before; "ERROR", "WARNING", "print(", *)
(* "console.log(", "*", ";", "{", "}", ",", "//" and "/*" are tokens of    *)
(* their own and no other token holds one of them, so a substring test for *)
(* one of them is a test for the token.  No line of the texts used here is *)
(* longer than 120 characters.                                             *)
(***************************************************************************)
\* sub in s, for sequences of tokens
HasInfix(s, sub) ==
    \E k \in 0..(Len(s) - Len(sub)) : SubSeq(s, k + 1, k + Len(sub)) = sub

\* str.count of a token
Count(s, token) == Cardinality({k \in 1..Len(s) : s[k] = token})

\* the texts handed to the validation
LspText(version) ==
    CASE version = "ok" -> <<"x", " ", "=", " ", "1", "\n">>
      [] version = "bad" -> <<"def", " ", "f", "(", ":", "\n">>
      [] version = "printing" -> <<"print(", "1", ")", "\n">>
      [] version = "undefined" -> <<"x", " ", "=", " ", "ERROR", "\n">>
      [] OTHER -> <<>>

\* ast.parse(content): <<>> when it returns, the SyntaxError's lineno and
\* msg when it raises
ast_parse(content) ==
    IF content = LspText("bad")
    THEN << [lineno |-> 1, msg |-> <<"invalid", " ", "syntax">>] >>
    ELSE <<>>

\* the lines `python -m pyflakes` prints on stdout for a file of this
\* content, the file named as the diagnostics name it (a syntax error goes
\* to stderr)
pyflakes_stdout(file_path, content) ==
    IF content = LspText("undefined")
    THEN << file_path \o <<":", "1", ":", "5", ":", " ", "undefined", " ", "name", " ",
                           "'", "ERROR", "'">> >>
    ELSE <<>>

Diagnostics(error_count, warning_count, text) ==
    [error_count |-> error_count, warning_count |-> warning_count, text |-> text]

\* the text the three diagnostics functions end with; marks are the signs
\* before 'Diagnostics' and before 'Summary'
FormatDiagnostics(marks, file_path, error_count, warning_count, diagnostics) ==
    Diagnostics(error_count, warning_count,
        marks[1] \o <<"Diagnostics", " ", "for", " ">> \o file_path \o <<":", "\n">>
            \o marks[2] \o <<"Summary", ":", " ", ToString(error_count), " ", "errors", ",", " ",
                           ToString(warning_count), " ", "warnings", "\n", "\n">>
            \o (IF diagnostics # <<>> THEN JoinLines(diagnostics)
                ELSE <<"No", " ", "issues", " ", "found!">>))

WarningAt(i, message) ==
    <<"Warning", " ", "(", "line", " ", ToString(i), ")", ":", " ">> \o message

\* lines 142-156: the warnings of the line checks, line by line
RECURSIVE PythonLineWarnings(_, _)
PythonLineWarnings(lines, i) ==
    IF i > Len(lines) THEN <<>>
    ELSE LET line == lines[i]
             line_stripped == Strip(line, Whitespace)
         IN  (IF /\ startswith(line_stripped, <<"import", " ">>)
                 /\ ~HasInfix(line_stripped, <<" ", "as", " ">>)
                 /\ Count(line_stripped, "*") > 0
              THEN << WarningAt(i, <<"Wildcard", " ", "import", " ", "detected">>) >>
              ELSE <<>>)
             \o (IF Count(line, "print(") > 0 /\ ~startswith(line_stripped, <<"#">>)
                 THEN << WarningAt(i, <<"print()", " ", "statement", " ", "found">>) >>
                 ELSE <<>>)
             \o PythonLineWarnings(lines, i + 1)

\* _get_python_diagnostics (122-191); pyflakes is "runs" or "unavailable"
\* (the module is missing, or the subprocess fails or times out)
_get_python_diagnostics(file_path, content, pyflakes) ==
    LET raised == ast_parse(content)
        syntax == IF raised = <<>>
                  THEN << <<"Syntax", ":", " ", "No", " ", "syntax", " ", "errors", " ", "found">> >>
                  ELSE << <<"Syntax", " ", "Error", " ", "(", "line", " ",
                            ToString(raised[1].lineno), ")", ":", " ">> \o raised[1].msg >>
        warnings == PythonLineWarnings(SplitLines(content), 1)
        issues == IF pyflakes = "runs" THEN pyflakes_stdout(file_path, content) ELSE <<>>
    IN  FormatDiagnostics(<< <<>>, <<>> >>, file_path, Len(raised), Len(warnings) + Len(issues),
            syntax \o warnings
                \o [k \in 1..Len(issues) |-> <<"Pyflakes", ":", " ">> \o issues[k]])

\* lines 202-230: the warnings of the line checks, line by line
RECURSIVE JsLineWarnings(_, _)
JsLineWarnings(lines, i) ==
    IF i > Len(lines) THEN <<>>
    ELSE LET line == lines[i]
             line_stripped == Strip(line, Whitespace)
         IN  (IF Count(line, "console.log(") > 0 /\ ~startswith(line_stripped, <<"//">>)
              THEN << WarningAt(i, <<"console.log()", " ", "found">>) >>
              ELSE <<>>)
             \o (IF endswith(line_stripped, <<";">>) /\ Count(line_stripped, ";") > 1
                 THEN << WarningAt(i, <<"Multiple", " ", "statements", " ", "on", " ", "one",
                                        " ", "line">>) >>
                 ELSE <<>>)
             \o (IF /\ line_stripped # <<>>
                    /\ ~startswith(line_stripped, <<"//">>)
                    /\ ~startswith(line_stripped, <<"/*">>)
                    /\ \A end \in {";", "{", "}", ","} : ~endswith(line_stripped, <<end>>)
                    /\ \A word \in {"if", "for", "while"} :
                           ~HasInfix(line_stripped, <<word, " ", "(">>)
                 THEN << WarningAt(i, <<"Missing", " ", "semicolon?">>) >>
                 ELSE <<>>)
             \o JsLineWarnings(lines, i + 1)

\* the signs _get_js_ts_diagnostics and _get_generic_diagnostics put before
\* 'Diagnostics' and 'Summary'
Marks == << <<"(magnifier)", " ">>, <<"(chart)", " ">> >>

\* _get_js_ts_diagnostics (193-241): error_count stays 0
_get_js_ts_diagnostics(file_path, content) ==
    LET warnings == JsLineWarnings(SplitLines(content), 1)
    IN  FormatDiagnostics(Marks, file_path, 0, Len(warnings), warnings)

\* lines 251-258: a warning for each line that ends in whitespace
RECURSIVE GenericLineWarnings(_, _)
GenericLineWarnings(lines, i) ==
    IF i > Len(lines) THEN <<>>
    ELSE (IF RStrip(lines[i], Whitespace) # lines[i]
          THEN << WarningAt(i, <<"Trailing", " ", "whitespace">>) >>
          ELSE <<>>) \o GenericLineWarnings(lines, i + 1)

\* _get_generic_diagnostics (243-278)
_get_generic_diagnostics(file_path, content) ==
    LET warnings ==
            GenericLineWarnings(SplitLines(content), 1)
                \o (IF Strip(content, Whitespace) = <<>>
                    THEN << <<"Warning", ":", " ", "File", " ", "is", " ", "empty">> >>
                    ELSE <<>>)
                \o (IF ~endswith(content, <<"\n">>)
                    THEN << <<"Warning", ":", " ", "File", " ", "doesn't", " ", "end", " ",
                              "with", " ", "newline">> >>
                    ELSE <<>>)
    IN  FormatDiagnostics(Marks, file_path, 0, Len(warnings), warnings)

\* get_diagnostics (97-120) with a content given: the dispatch on the
\* extension, the last token of the path
get_diagnostics(file_path, content, pyflakes) ==
    LET file_ext == IF file_path = <<>> THEN "" ELSE file_path[Len(file_path)]
    IN  IF file_ext = ".py" THEN _get_python_diagnostics(file_path, content, pyflakes)
        ELSE IF file_ext \in {".js", ".ts", ".tsx", ".jsx"}
          THEN _get_js_ts_diagnostics(file_path, content)
        ELSE _get_generic_diagnostics(file_path, content)

\* lines 364-371: the verdict read off the diagnostics text
Verdict(diagnostics) ==
    [valid         |-> Count(diagnostics.text, "ERROR") = 0,
     error_count   |-> Count(diagnostics.text, "ERROR"),
     warning_count |-> Count(diagnostics.text, "WARNING")]

\* validate_code_in_shadow_workspace (344-373): the dict it returns, beside
\* the counts its diagnostics were computed with.  The copy of the
\* workspace and the file written into it are gone when it returns.
validate_code_in_shadow_workspace(file_path, new_content, pyflakes) ==
    LET diagnostics_result == get_diagnostics(file_path, new_content, pyflakes)
    IN  [op          |-> "validate_code_in_shadow_workspace",
         result      |-> Verdict(diagnostics_result),
         passed      |-> Verdict(diagnostics_result).valid,
         diagnostics |-> diagnostics_result]

\* validate_code_tool (451-467): 'passed' for the 'Code validation passed!'
\* text, the 'failed!' text with the counts otherwise
validate_code_tool(file_path, new_content, pyflakes) ==
    LET validated == validate_code_in_shadow_workspace(file_path, new_content, pyflakes)
    IN  [validated EXCEPT !.op = "validate_code_tool", !.passed = validated.result.valid]

\* the calls the model makes
LspPaths == { <<"m", ".py">>, <<"src", "/", "m", ".py">>, <<"ERROR", ".py">>,
              <<"app", ".js">>, <<"notes", ".txt">> }

LspInputs ==
    [file_path : LspPaths,
     new_content : {LspText(v) : v \in {"ok", "bad", "printing", "undefined", "empty"}},
     pyflakes : {"runs", "unavailable"}]

(***************************************************************************)
(* State.                                                                  *)
(***************************************************************************)
Procs == {1, 2}

VARIABLES
    project_root,   \* the root every agent and search tool is constructed with
    fs,             \* the source tree: the state of each file below the root
    collections,    \* names of the collections that exist in .adk_index
    code_entries,   \* contents of collection code_elements
    file_entries,   \* contents of collection file_summaries
    pc,             \* per process: where its IndexingAgent is
    hash_seed,      \* per process: its string hash seed
    code_files,     \* per process: discovered files not yet indexed
    indexed_files,  \* per process: index_codebase's indexed_files
    code_elements,  \* per process: index_codebase's code_elements
    errors,         \* per process: index_codebase's errors
    failed_file,    \* per process: the file whose open() raised in this run
    runs,           \* agents constructed so far
    edits,          \* edits of the tree so far
    done_hist,      \* history: the store after the last two completed runs since the last edit
    base,           \* history: the store at the start of a run, kept across interruptions
    last_summary,   \* history: per file, the summary computed by the latest _index_file
    result,         \* the latest call of a search operation and what it returned
    answer,         \* history: what the store handed to that call
    disk,           \* the file system the file tools work on
    tool_result,    \* the latest call of read_file or write_file and what it returned
    last_write,     \* history: the latest successful write_file
    calls,          \* calls of the file tools so far
    parse_in,       \* a file handed to the SourceParser
    parse_out,      \* what the SourceParser made of it
    scan_in,        \* a root and the files below it, handed to the discovery of index_codebase
    scan_out,       \* the file list the discovery made of them
    lsp_in,         \* a file path, a new content and what the external checkers say of it
    lsp_out         \* what the validation of lsp_tool returned for them

vars == <<project_root, fs, collections, code_entries, file_entries, pc, hash_seed,
          code_files, indexed_files, code_elements, errors, failed_file, runs, edits,
          done_hist, base, last_summary, result, answer, disk, tool_result, last_write,
          calls, parse_in, parse_out, scan_in, scan_out, lsp_in, lsp_out>>

store == <<collections, code_entries, file_entries>>
procState == <<pc, hash_seed, code_files, indexed_files, code_elements, errors, failed_file>>
observed == <<done_hist, base, last_summary, result>>
fileTools == <<disk, tool_result, last_write, calls>>
parsing == <<parse_in, parse_out>>
scanning == <<scan_in, scan_out>>
validating == <<lsp_in, lsp_out>>
indexing == <<project_root, fs, store, procState, runs, edits, done_hist, base, last_summary>>
\* what the indexing agent leaves alone
aside == <<answer, fileTools, parsing, scanning, validating>>

Roots == { <<>>, <<"proj">> }

PyVersions == {"py1", "py2", "pytwo", "unreadable"}
MdVersions == {"md1", "md2", "absent"}
VersionsOf(rel) == IF rel = PyFile THEN PyVersions ELSE MdVersions

NoCall == [op |-> "none", arg |-> <<>>, fault |-> "none", kind |-> "none", text |-> "",
           info |-> <<>>, rows |-> <<>>]

NoArrays == [documents |-> <<>>, metadatas |-> <<>>, distances |-> <<>>]
NoAnswer == [n |-> 0, query |-> <<>>, arrays |-> NoArrays]

NoFile == [file_ext |-> "", content |-> <<>>]
NotParsed == <<>>

NoTree == [root |-> <<>>, tree |-> {}]
NotScanned == <<>>

NoChange == [file_path |-> <<>>, new_content |-> <<>>, pyflakes |-> "unavailable"]
NotValidated == <<>>

NoBase == [state |-> "invalid", code |-> {}, files |-> {}, written |-> {}]

\* no agent constructed, nothing stored, no search call made
IndexingStart ==
    /\ project_root \in Roots
    /\ fs \in {f \in [RelFiles -> PyVersions \cup MdVersions] :
                 /\ f[PyFile] \in {"py1", "pytwo", "unreadable"}
                 /\ f[MdFile] \in {"md1", "absent"}}
    /\ collections = {}
    /\ code_entries = {}
    /\ file_entries = {}
    /\ pc = [p \in Procs |-> "none"]
    /\ hash_seed = [p \in Procs |-> 0]
    /\ code_files = [p \in Procs |-> {}]
    /\ indexed_files = [p \in Procs |-> <<>>]
    /\ code_elements = [p \in Procs |-> <<>>]
    /\ errors = [p \in Procs |-> <<>>]
    /\ failed_file = [p \in Procs |-> <<>>]
    /\ runs = 0
    /\ edits = 0
    /\ done_hist = <<>>
    /\ base = NoBase
    /\ last_summary = [f \in RelFiles |-> <<>>]
    /\ result = NoCall
    /\ answer = NoAnswer

FileToolsIdle ==
    /\ disk = EmptyProject
    /\ tool_result = NoToolCall
    /\ last_write = NoWrite
    /\ calls = 0

ParserIdle ==
    /\ parse_in = NoFile
    /\ parse_out = NotParsed

ScanIdle ==
    /\ scan_in = NoTree
    /\ scan_out = NotScanned

LspIdle ==
    /\ lsp_in = NoChange
    /\ lsp_out = NotValidated

Init == IndexingStart /\ FileToolsIdle /\ ParserIdle /\ ScanIdle /\ LspIdle

Idle(p) == pc[p] \in {"none", "done", "raised"}

(***************************************************************************)
(* IndexingAgent.__init__ (48-76): get-or-create of the two collections,   *)
(* one after the other.  Each agent may live in a process of its own.      *)
(***************************************************************************)
ConstructCode(p, cap) ==
    /\ Idle(p)
    /\ runs < cap
    /\ runs' = runs + 1
    /\ \E seed \in Seeds : hash_seed' = [hash_seed EXCEPT ![p] = seed]
    /\ collections' = collections \cup {"code_elements"}
    /\ pc' = [pc EXCEPT ![p] = "init"]
    /\ code_files' = [code_files EXCEPT ![p] = {}]
    /\ indexed_files' = [indexed_files EXCEPT ![p] = <<>>]
    /\ code_elements' = [code_elements EXCEPT ![p] = <<>>]
    /\ errors' = [errors EXCEPT ![p] = <<>>]
    /\ failed_file' = [failed_file EXCEPT ![p] = <<>>]
    /\ UNCHANGED <<project_root, fs, code_entries, file_entries, edits, observed, aside>>

ConstructFiles(p) ==
    /\ pc[p] = "init"
    /\ collections' = collections \cup {"file_summaries"}
    /\ pc' = [pc EXCEPT ![p] = "ready"]
    /\ UNCHANGED <<project_root, fs, code_entries, file_entries, hash_seed, code_files,
                   indexed_files, code_elements, errors, failed_file, runs, edits, observed, aside>>

(***************************************************************************)
(* index_codebase (104-124).                                               *)
(***************************************************************************)
\* rglob over the supported extensions, minus the ignored directories
Discovered(tree) == {f \in RelFiles : tree[f] # "absent"}

\* lines 105-114: the file list is built; the run starts from the store as it is
StartIndexing(p) ==
    /\ pc[p] = "ready"
    /\ code_files' = [code_files EXCEPT ![p] = Discovered(fs)]
    /\ pc' = [pc EXCEPT ![p] = "files"]
    /\ base' = IF base.state = "interrupted"
               THEN [base EXCEPT !.state = "rerun"]
               ELSE [state |-> "running", code |-> code_entries, files |-> file_entries,
                     written |-> {}]
    /\ UNCHANGED <<project_root, fs, store, hash_seed, indexed_files, code_elements,
                   errors, failed_file, runs, edits, done_hist, last_summary, result, aside>>

\* history: the run of p ends without returning; base remembers the files
\* whose summary it had written
Interrupted(p) ==
    IF base.state \in {"running", "rerun"}
    THEN [base EXCEPT !.state = "interrupted",
                      !.written = @ \cup SeqToSet(indexed_files[p])]
    ELSE base

\* what _index_file (126-148) computes for one readable file
FileElements(root, rel, content) == ParseFile(root \o rel, content, suffix(rel))

FileSummary(root, rel, content, seed) ==
    _create_file_summary(root, rel, content, FileElements(root, rel, content), seed)

\* one iteration of the loop of lines 115-118, _index_file included
IndexFile(p, rel) ==
    /\ pc[p] = "files"
    /\ rel \in code_files[p]
    /\ fs[rel] # "unreadable"
    /\ LET content  == Text(fs[rel])
           elements == FileElements(project_root, rel, content)
           summary  == FileSummary(project_root, rel, content, hash_seed[p])
       IN  /\ file_entries' = _store_file_summary(file_entries, summary)
           /\ last_summary' = [last_summary EXCEPT ![rel] = <<summary>>]
           /\ indexed_files' = [indexed_files EXCEPT ![p] = Append(@, rel)]
           /\ code_elements' = [code_elements EXCEPT ![p] = @ \o elements]
    /\ code_files' = [code_files EXCEPT ![p] = @ \ {rel}]
    /\ UNCHANGED <<project_root, fs, collections, code_entries, pc, hash_seed, errors,
                   failed_file, runs, edits, done_hist, base, result, aside>>

\* open() of line 128 raises: nothing catches it, index_codebase raises
IndexFileRaises(p, rel) ==
    /\ pc[p] = "files"
    /\ rel \in code_files[p]
    /\ fs[rel] = "unreadable"
    /\ pc' = [pc EXCEPT ![p] = "raised"]
    /\ failed_file' = [failed_file EXCEPT ![p] = <<rel>>]
    /\ base' = Interrupted(p)
    /\ UNCHANGED <<project_root, fs, store, hash_seed, code_files, indexed_files,
                   code_elements, errors, runs, edits, done_hist, last_summary, result, aside>>

Snapshot(p) ==
    [code |-> _store_elements(code_entries, code_elements[p]), files |-> file_entries,
     total_elements |-> Len(code_elements[p])]

\* lines 119-124: the one batch of all elements is stored and the report returned
StoreAndReturn(p) ==
    /\ pc[p] = "files"
    /\ code_files[p] = {}
    /\ ~StoreElementsRaises(code_elements[p])
    /\ code_entries' = _store_elements(code_entries, code_elements[p])
    /\ pc' = [pc EXCEPT ![p] = "done"]
    /\ done_hist' = IF done_hist = <<>> THEN <<Snapshot(p)>>
                    ELSE <<done_hist[Len(done_hist)], Snapshot(p)>>
    /\ base' = IF base.state = "rerun" THEN [base EXCEPT !.state = "converged"]
               ELSE NoBase
    /\ UNCHANGED <<project_root, fs, collections, file_entries, hash_seed, code_files,
                   indexed_files, code_elements, errors, failed_file, runs, edits,
                   last_summary, result, aside>>

\* the store rejects the batch: _store_elements and index_codebase raise
StoreRaises(p) ==
    /\ pc[p] = "files"
    /\ code_files[p] = {}
    /\ StoreElementsRaises(code_elements[p])
    /\ pc' = [pc EXCEPT ![p] = "raised"]
    /\ base' = Interrupted(p)
    /\ UNCHANGED <<project_root, fs, store, hash_seed, code_files, indexed_files,
                   code_elements, errors, failed_file, runs, edits, done_hist,
                   last_summary, result, aside>>

\* the run is interrupted (the process is killed, or an embedding or store
\* call fails) between two of its steps
Interrupt(p) ==
    /\ pc[p] \in {"init", "ready", "files"}
    /\ pc' = [pc EXCEPT ![p] = "none"]
    /\ base' = Interrupted(p)
    /\ UNCHANGED <<project_root, fs, store, hash_seed, code_files, indexed_files,
                   code_elements, errors, failed_file, runs, edits, done_hist,
                   last_summary, result, aside>>

\* between runs somebody changes one file of the tree
Edit(rel, version) ==
    /\ \A p \in Procs : Idle(p)
    /\ edits < MaxEdits
    /\ version \in VersionsOf(rel)
    /\ version # fs[rel]
    /\ fs' = [fs EXCEPT ![rel] = version]
    /\ edits' = edits + 1
    /\ done_hist' = <<>>
    /\ base' = NoBase
    /\ UNCHANGED <<project_root, store, procState, runs, last_summary, result, aside>>

Agent(p, cap) ==
    \/ ConstructCode(p, cap)
    \/ ConstructFiles(p)
    \/ StartIndexing(p)
    \/ \E rel \in RelFiles : IndexFile(p, rel)
    \/ \E rel \in RelFiles : IndexFileRaises(p, rel)
    \/ StoreAndReturn(p)
    \/ StoreRaises(p)
    \/ Interrupt(p)

Next ==
    \/ Agent(1, MaxRuns)
    \/ \E rel \in RelFiles, version \in PyVersions \cup MdVersions : Edit(rel, version)

Spec == Init /\ [][Next]_vars

(***************************************************************************)
(* index_codebase run to completion from a given store over a given tree:  *)
(* the loop of lines 115-118 followed by _store_elements (119).            *)
(***************************************************************************)
RECURSIVE AllElements(_, _, _)
AllElements(files, root, tree) ==
    IF files = {} THEN <<>>
    ELSE LET rel == CHOOSE f \in files : TRUE
         IN  FileElements(root, rel, Text(tree[rel])) \o AllElements(files \ {rel}, root, tree)

RECURSIVE AllSummaries(_, _, _, _, _)
AllSummaries(files, entries, root, tree, seed) ==
    IF files = {} THEN entries
    ELSE LET rel == CHOOSE f \in files : TRUE
         IN  AllSummaries(files \ {rel},
                          _store_file_summary(entries,
                              FileSummary(root, rel, Text(tree[rel]), seed)),
                          root, tree, seed)

FullRun(code, files, root, tree, seed) ==
    [code  |-> _store_elements(code, AllElements(Discovered(tree), root, tree)),
     files |-> AllSummaries(Discovered(tree), files, root, tree, seed)]

(***************************************************************************)
(* The store as the search side sees it.  The embedding model and the      *)
(* store's metric are external: Distance is a stand-in that is a function  *)
(* of the query and the stored document, as theirs is.  `ranking` is the   *)
(* store's own order of its entries (the order of get, and of equally      *)
(* distant results of query).                                              *)
(***************************************************************************)
Perms(S) ==
    {f \in [1..Cardinality(S) -> S] : \A j, k \in 1..Cardinality(S) : f[j] = f[k] => j = k}

Distance(query, document) ==
    Cardinality({k \in 1..Len(query) : query[k] \notin SeqToSet(document)})

\* a where-filter {key: value}; key "" stands for where=None
Matches(metadata, key, value) ==
    key = "" \/ (key \in DOMAIN metadata /\ metadata[key] = value)

\* Collection.get(where=..., limit=...): the matching entries in store order
collection_get(ranking, key, value, limit) ==
    LET hits == SelectSeq(ranking, LAMBDA e : Matches(e.metadata, key, value))
    IN  Slice(hits, 0, limit)

RECURSIVE ByDistance(_, _)
ByDistance(hits, query) ==
    IF hits = <<>> THEN <<>>
    ELSE LET k == CHOOSE j \in 1..Len(hits) :
                    /\ \A m \in 1..Len(hits) :
                           Distance(query, hits[j].document) <= Distance(query, hits[m].document)
                    /\ \A m \in 1..(j - 1) :
                           Distance(query, hits[m].document) > Distance(query, hits[j].document)
         IN  <<hits[k]>> \o ByDistance(SubSeq(hits, 1, k - 1) \o SubSeq(hits, k + 1, Len(hits)),
                                       query)

\* Collection.query(query_embeddings=[..], n_results=.., where=..): the
\* n_results nearest matching entries, nearest first
collection_query(ranking, query, n_results, key, value) ==
    Slice(ByDistance(SelectSeq(ranking, LAMBDA e : Matches(e.metadata, key, value)), query),
          0, n_results)

\* the row a fault of the store makes malformed
BadRow(fault, k) ==
    \/ fault = "bad_metadata" /\ k = 1
    \/ fault = "bad_metadata_2" /\ k = 2

\* the metadatas array of a result: a metadata that is no dict is <<>>
Metadatas(hits, fault) ==
    [k \in 1..Len(hits) |-> IF BadRow(fault, k) THEN <<>> ELSE <<hits[k].metadata>>]

\* an array of a result as a fault of the store cuts it: emptied, or
\* without its last row
Cut(array, fault, name) ==
    IF fault = "no_" \o name THEN <<>>
    ELSE IF fault = "short_" \o name THEN Slice(array, 0, Len(array) - 1)
    ELSE array

\* the parallel arrays of one query result.  A fault of the store shows as
\* a metadata that is no dict, as a distance of None in the first row, or
\* as arrays of unequal lengths.
ResultArrays(hits, query, fault) ==
    [documents |-> Cut([k \in 1..Len(hits) |-> hits[k].document], fault, "documents"),
     metadatas |-> Cut(Metadatas(hits, fault), fault, "metadatas"),
     distances |-> Cut([k \in 1..Len(hits) |->
                          [ok |-> ~(fault = "none_distance" /\ k = 1),
                           value |-> Distance(query, hits[k].document)]],
                       fault, "distances")]

(***************************************************************************)
(* VectorSearchTool (vector_search_tool.py).  What a call returns:         *)
(*   kind "not_indexed"   the 'run indexing first' sentinel                *)
(*        "no_results"    the 'No ... found' text                          *)
(*        "inconsistent"  the 'Inconsistent ... data' text                 *)
(*        "error"         the 'Error ...' text of an except clause         *)
(*        "results"       the formatted rows                               *)
(*        "raised"        no text: the exception reaches the caller        *)
(***************************************************************************)
Result(op, arg, fault, kind, text, info, rows) ==
    [op |-> op, arg |-> arg, fault |-> fault, kind |-> kind, text |-> text, info |-> info,
     rows |-> rows]

\* faulty variant: the handles are taken to be there
HasCollections_Unchecked(existing) == TRUE

\* __init__ (11-29): both handles, or none when either collection is missing
HasCollections(existing) == {"code_elements", "file_summaries"} \subseteq existing

ZipLen(arrays) ==
    Min(Len(arrays.documents), Min(Len(arrays.metadatas), Len(arrays.distances)))

\* faulty variant: the formatting loop ends at the first metadata that is no dict
RECURSIVE KeptRows_UntilMalformed(_, _, _)
KeptRows_UntilMalformed(metadatas, k, n) ==
    IF k > n \/ metadatas[k] = <<>> THEN <<>>
    ELSE <<k>> \o KeptRows_UntilMalformed(metadatas, k + 1, n)

\* faulty variant: the rows are formatted last row first
RECURSIVE KeptRows_Backwards(_, _, _)
KeptRows_Backwards(metadatas, k, n) ==
    IF k > n THEN <<>>
    ELSE KeptRows_Backwards(metadatas, k + 1, n)
         \o (IF metadatas[k] # <<>> THEN <<k>> ELSE <<>>)

\* indexes of the rows the formatting loops keep: those whose metadata is a dict
RECURSIVE KeptRows(_, _, _)
KeptRows(metadatas, k, n) ==
    IF k > n THEN <<>>
    ELSE (IF metadatas[k] # <<>> THEN <<k>> ELSE <<>>) \o KeptRows(metadatas, k + 1, n)

\* 1 - distance of a kept row raises TypeError when the distance is None
FormatRaises(arrays) ==
    \E k \in 1..ZipLen(arrays) : arrays.metadatas[k] # <<>> /\ ~arrays.distances[k].ok

SearchRow(arrays, k) ==
    LET metadata == arrays.metadatas[k][1]
    IN  [index        |-> k,
         similarity   |-> 1 - arrays.distances[k].value,
         name         |-> metadata.name,
         element_type |-> metadata.element_type,
         file_path    |-> metadata.file_path,
         start_line   |-> metadata.start_line,
         end_line     |-> metadata.end_line]

FileRow(arrays, k) ==
    LET metadata == arrays.metadatas[k][1]
    IN  [index         |-> k,
         similarity    |-> 1 - arrays.distances[k].value,
         file_path     |-> metadata.file_path,
         file_type     |-> metadata.file_type,
         line_count    |-> metadata.line_count,
         element_count |-> metadata.element_count,
         contains      |-> metadata.elements_by_type_str]

\* lines 45-56 and 104-121: the checks on the arrays before the loop
ArraysEmpty(arrays) ==
    arrays.documents = <<>> \/ arrays.metadatas = <<>> \/ arrays.distances = <<>>

ArraysInconsistent(arrays) ==
    ~(Len(arrays.documents) = Len(arrays.metadatas)
      /\ Len(arrays.metadatas) = Len(arrays.distances))

\* semantic_search (31-77); file_type_filter "" stands for None
semantic_search(existing, ranking, query, max_results, file_type_filter, fault) ==
    LET R(kind, text, rows) ==
            Result("semantic_search", <<file_type_filter>>, fault, kind, text, <<>>, rows)
        arrays == ResultArrays(
                      collection_query(ranking, query, max_results,
                                       IF file_type_filter # "" THEN "file_type" ELSE "",
                                       file_type_filter),
                      query, fault)
        kept == KeptRows(arrays.metadatas, 1, ZipLen(arrays))
    IN  IF ~HasCollections(existing)
          THEN R("not_indexed", "No code index found. Please run indexing first.", <<>>)
        ELSE IF fault \in {"encode_raises", "store_raises"} THEN R("raised", "", <<>>)
        ELSE IF ArraysEmpty(arrays) THEN R("no_results", "No results found for query", <<>>)
        ELSE IF ArraysInconsistent(arrays)
          THEN R("inconsistent", "Inconsistent result data for query", <<>>)
        ELSE IF FormatRaises(arrays) THEN R("raised", "", <<>>)
        ELSE R("results", "", [j \in 1..Len(kept) |-> SearchRow(arrays, kept[j])])

\* find_files_by_content (79-145)
find_files_by_content(existing, ranking, query, max_results, fault) ==
    LET R(kind, text, rows) ==
            Result("find_files_by_content", <<>>, fault, kind, text, <<>>, rows)
        arrays == ResultArrays(collection_query(ranking, query, max_results, "", ""),
                               query, fault)
        kept == KeptRows(arrays.metadatas, 1, ZipLen(arrays))
    IN  IF ~HasCollections(existing)
          THEN R("not_indexed", "No file index found. Please run indexing first.", <<>>)
        ELSE IF fault \in {"encode_raises", "store_raises"}
          THEN R("error", "Error finding files", <<>>)
        ELSE IF ArraysEmpty(arrays) THEN R("no_results", "No files found for query", <<>>)
        ELSE IF ArraysInconsistent(arrays)
          THEN R("inconsistent", "Inconsistent file data for query", <<>>)
        ELSE IF FormatRaises(arrays) THEN R("error", "Error finding files", <<>>)
        ELSE R("results", "", [j \in 1..Len(kept) |-> FileRow(arrays, kept[j])])

\* find_elements_by_type (147-199)
find_elements_by_type(existing, ranking, element_type, max_results, fault) ==
    LET R(kind, text, rows) ==
            Result("find_elements_by_type", <<element_type>>, fault, kind, text, <<>>, rows)
        hits == collection_get(ranking, "element_type", element_type, max_results)
        metadatas == Metadatas(hits, fault)
        kept == KeptRows(metadatas, 1, Len(hits))
    IN  IF ~HasCollections(existing)
          THEN R("not_indexed", "No code index found. Please run indexing first.", <<>>)
        ELSE IF fault = "store_raises" THEN R("error", "Error finding elements", <<>>)
        ELSE IF hits = <<>> THEN R("no_results", "No elements found.", <<>>)
        ELSE R("results", "",
               [j \in 1..Len(kept) |->
                   [index      |-> kept[j],
                    name       |-> metadatas[kept[j]][1].name,
                    file_path  |-> metadatas[kept[j]][1].file_path,
                    start_line |-> metadatas[kept[j]][1].start_line,
                    end_line   |-> metadatas[kept[j]][1].end_line]])

\* lines 243-251: the kinds in first-seen order
RECURSIVE FirstSeen(_, _)
FirstSeen(metadatas, seen) ==
    IF metadatas = <<>> THEN <<>>
    ELSE IF Head(metadatas).element_type \in seen THEN FirstSeen(Tail(metadatas), seen)
    ELSE <<Head(metadatas).element_type>>
         \o FirstSeen(Tail(metadatas), seen \cup {Head(metadatas).element_type})

\* lines 255-262: one heading per kind, followed by its elements
Groups(metadatas) ==
    LET kinds == FirstSeen(metadatas, {})
    IN  [g \in 1..Len(kinds) |->
            [element_type |-> kinds[g],
             elements |-> LET ms == SelectSeq(metadatas,
                                              LAMBDA m : m.element_type = kinds[g])
                          IN  [k \in 1..Len(ms) |->
                                  [name |-> ms[k].name, start_line |-> ms[k].start_line,
                                   end_line |-> ms[k].end_line]]]]

\* lines 227-240: the file-level lines, <<>> when there are none
FileInfo(file_ranking, file_path) ==
    LET found == SelectSeq(file_ranking, LAMBDA e : e.id = file_path)
    IN  IF found = <<>> THEN <<>>
        ELSE << [file_path     |-> file_path,
                 file_type     |-> found[1].metadata.file_type,
                 line_count    |-> found[1].metadata.line_count,
                 element_count |-> found[1].metadata.element_count] >>

\* get_file_structure (201-267)
get_file_structure(existing, ranking, file_ranking, file_path, fault) ==
    LET R(kind, text, info, rows) ==
            Result("get_file_structure", file_path, fault, kind, text, info, rows)
        hits == collection_get(ranking, "file_path", file_path, Len(ranking))
        dicts == SelectSeq(Metadatas(hits, fault), LAMBDA m : m # <<>>)
    IN  IF ~HasCollections(existing)
          THEN R("not_indexed", "No code index found. Please run indexing first.", <<>>, <<>>)
        ELSE IF fault = "store_raises"
          THEN R("error", "Error getting file structure", <<>>, <<>>)
        ELSE IF hits = <<>>
          THEN R("no_results", "No structure information found", <<>>, <<>>)
        ELSE R("results", "", FileInfo(file_ranking, file_path),
               Groups([k \in 1..Len(dicts) |-> dicts[k][1]]))

\* search_code_tool (270-285): the first of the comma-separated element
\* types is handed to semantic_search as its file-type filter
search_code_tool(existing, ranking, query, max_results, element_types, fault) ==
    semantic_search(existing, ranking, query, max_results,
                    IF element_types = <<>> THEN "" ELSE element_types[1], fault)

(***************************************************************************)
(* The search calls.  Every tool wrapper constructs its VectorSearchTool   *)
(* for the call, so the handles are those of the store at the call.        *)
(***************************************************************************)
Queries == { <<"K">>, <<"x">> }
Filters == {"", ".py", ".md", "class"}
Kinds == {"function", "class", "import", "markdown_section", "text_chunk"}
Faults == {"none", "encode_raises", "store_raises", "none_distance", "bad_metadata",
           "bad_metadata_2", "no_documents", "short_documents", "no_metadatas",
           "short_metadatas", "no_distances", "short_distances"}
GetFaults == {"none", "store_raises", "bad_metadata", "bad_metadata_2"}
\* max_results: one row, or more rows than one run stores
Limits == {1, MaxResults}

\* what the store hands to a call that reaches it
Answer(n, query, arrays) == [n |-> n, query |-> query, arrays |-> arrays]

QueryAnswer(ranking, query, n, key, value, fault) ==
    Answer(n, query, ResultArrays(collection_query(ranking, query, n, key, value),
                                  query, fault))

GetAnswer(ranking, key, value, limit, fault) ==
    LET hits == collection_get(ranking, key, value, limit)
    IN  Answer(limit, <<>>, [documents |-> [k \in 1..Len(hits) |-> hits[k].document],
                             metadatas |-> Metadatas(hits, fault),
                             distances |-> <<>>])

\* a call made once the indexing runs of the behaviour are over returns r,
\* the store having answered a; nothing else changes
Call(r, a) ==
    /\ result' = r
    /\ answer' = IF r.kind = "not_indexed" \/ r.fault \in {"encode_raises", "store_raises"}
                 THEN NoAnswer ELSE a
    /\ UNCHANGED <<indexing, fileTools, parsing, scanning, validating>>

SemanticSearch ==
    /\ result = NoCall
    /\ \E ranking \in Perms(code_entries), query \in Queries, n \in Limits,
          filter \in Filters, fault \in Faults :
           Call(semantic_search(collections, ranking, query, n, filter, fault),
                QueryAnswer(ranking, query, n, IF filter # "" THEN "file_type" ELSE "",
                            filter, fault))

SearchCodeTool ==
    /\ result = NoCall
    /\ \E ranking \in Perms(code_entries), query \in Queries, n \in Limits,
          types \in {<<>>, <<"class">>, <<".py", "class">>}, fault \in Faults :
           Call([search_code_tool(collections, ranking, query, n, types, fault)
                     EXCEPT !.op = "search_code_tool"],
                QueryAnswer(ranking, query, n, IF types # <<>> THEN "file_type" ELSE "",
                            IF types # <<>> THEN types[1] ELSE "", fault))

FindFilesByContent ==
    /\ result = NoCall
    /\ \E ranking \in Perms(file_entries), query \in Queries, n \in Limits,
          fault \in Faults :
           Call(find_files_by_content(collections, ranking, query, n, fault),
                QueryAnswer(ranking, query, n, "", "", fault))

FindElementsByType ==
    /\ result = NoCall
    /\ \E ranking \in Perms(code_entries), kind \in Kinds, n \in Limits,
          fault \in GetFaults :
           Call(find_elements_by_type(collections, ranking, kind, n, fault),
                GetAnswer(ranking, "element_type", kind, n, fault))

GetFileStructure ==
    /\ result = NoCall
    /\ \E ranking \in Perms(code_entries), file_ranking \in Perms(file_entries),
          path \in RelFiles \cup {project_root \o rel : rel \in RelFiles}, fault \in GetFaults :
           Call(get_file_structure(collections, ranking, file_ranking, path, fault),
                GetAnswer(ranking, "file_path", path, Len(ranking), fault))

\* A behaviour of SpecSearch ends with the call, so that result stays beside
\* the store it was computed from.
AgentBeforeCall(p) ==
    /\ result = NoCall
    /\ Agent(p, MaxSearchRuns)

NextSearch ==
    \/ AgentBeforeCall(1)
    \/ SemanticSearch
    \/ SearchCodeTool
    \/ FindFilesByContent
    \/ FindElementsByType
    \/ GetFileStructure

SpecSearch == Init /\ [][NextSearch]_vars

(***************************************************************************)
(* The file tools at work: read_file and write_file are called, one call   *)
(* after the other, on a disk that holds the project, a sibling directory  *)
(* whose name begins with the project's, and a file outside both.          *)
(***************************************************************************)
QuietIndexing ==
    /\ IndexingStart
    /\ project_root = <<>>
    /\ fs = [f \in RelFiles |-> IF f = PyFile THEN "py1" ELSE "absent"]

InitFS ==
    /\ QuietIndexing
    /\ ParserIdle
    /\ ScanIdle
    /\ LspIdle
    /\ disk \in Disks
    /\ tool_result = NoToolCall
    /\ last_write = NoWrite
    /\ calls = 0

ReadFile ==
    /\ calls < MaxCalls
    /\ calls' = calls + 1
    /\ \E path \in Paths : tool_result' = read_file(disk, path)
    /\ UNCHANGED <<disk, last_write, indexing, result, answer, parsing, scanning, validating>>

WriteFile ==
    /\ calls < MaxCalls
    /\ calls' = calls + 1
    /\ \E path \in Paths, content \in Contents :
           LET w == write_file(disk, path, content)
           IN  /\ disk' = w.disk
               /\ tool_result' = w.result
               /\ last_write' = IF w.result.kind = "ok"
                                THEN [path |-> path, content |-> content]
                                ELSE last_write
    /\ UNCHANGED <<indexing, result, answer, parsing, scanning, validating>>

NextFS == ReadFile \/ WriteFile

SpecFS == InitFS /\ [][NextFS]_vars

(***************************************************************************)
(* The SourceParser at work on one file: _index_file's dispatch on the     *)
(* extension (130-142), applied to a text of the file's kind.              *)
(***************************************************************************)
\* the lines a markdown text of the model is made of
MdLines == { <<"#", " ", "A">>, <<" ", "#", "B">>, <<"x">>, <<>>, <<" ">> }

RECURSIVE SeqsUpTo(_, _)
SeqsUpTo(S, n) ==
    IF n = 0 THEN {<<>>}
    ELSE LET shorter == SeqsUpTo(S, n - 1)
         IN  shorter \cup {Append(ls, l) : ls \in shorter, l \in S}

\* heading A, three lines of body, heading B, three lines of body
TwoSections ==
    << <<"#", " ", "A">>, <<"a">>, <<"b">>, <<"c">>,
       <<"#", " ", "B">>, <<"d">>, <<"e">>, <<"f">> >>

\* three sections: a heading that holds ':' and the name of the kind, and
\* two headings A over different bodies, one of which holds them too
ColonSections ==
    << <<"#", " ", "A", ":", "markdown_section", ":", "b">>, <<"c">>,
       <<"#", " ", "A">>, <<"b", ":", "markdown_section", ":", "c">>,
       <<"#", " ", "A">>, <<"c">> >>

MarkdownTexts ==
    {JoinLines(ls) : ls \in SeqsUpTo(MdLines, MaxMdLines) \ {<<>>}}
        \cup {<<>>, JoinLines(TwoSections), JoinLines(TwoSections) \o <<"\n">>,
              JoinLines(ColonSections)}

\* a text of n lines, the first `blank` of them empty
ChunkText(n, blank) == JoinLines([k \in 1..n |-> IF k <= blank THEN <<>> ELSE <<"l">>])

ChunkTexts ==
    {ChunkText(n, blank) : n \in 1..MaxChunkLines, blank \in {0, 1, chunk_size}}

PythonTexts == {Text(v) : v \in {"py1", "py2", "pydoc", "pytwo", "pyfoo", "pylate"}}

JsTexts == {Text("js1")}

ParseInputs ==
    {[file_ext |-> ".py", content |-> c] : c \in PythonTexts}
        \cup {[file_ext |-> ext, content |-> c] : ext \in {".js", ".ts", ".tsx"}, c \in JsTexts}
        \cup {[file_ext |-> ".md", content |-> c] : c \in MarkdownTexts}
        \cup {[file_ext |-> ".jsx", content |-> c] : c \in ChunkTexts}

ParsePath(file_ext) == <<"proj", "f" \o file_ext>>

InitParse ==
    /\ QuietIndexing
    /\ FileToolsIdle
    /\ ScanIdle
    /\ LspIdle
    /\ parse_in \in ParseInputs
    /\ parse_out = NotParsed

\* the elements _index_file gets from the parser it dispatches to
Parsed ==
    /\ parse_out' = << ParseFile(ParsePath(parse_in.file_ext), parse_in.content,
                                 parse_in.file_ext) >>
    /\ UNCHANGED <<parse_in, indexing, result, answer, fileTools, scanning, validating>>

ParseWithTreeSitter ==
    /\ parse_out = NotParsed
    /\ parse_in.file_ext \in ParserExts
    /\ Parsed

ParseMarkdown ==
    /\ parse_out = NotParsed
    /\ parse_in.file_ext = ".md"
    /\ Parsed

SimpleTextChunks ==
    /\ parse_out = NotParsed
    /\ parse_in.file_ext \notin ParserExts \cup {".md"}
    /\ Parsed

NextParse == ParseWithTreeSitter \/ ParseMarkdown \/ SimpleTextChunks

SpecParse == InitParse /\ [][NextParse]_vars

(***************************************************************************)
(* The discovery of index_codebase at work on one root and one tree.       *)
(***************************************************************************)
InitScan ==
    /\ QuietIndexing
    /\ FileToolsIdle
    /\ ParserIdle
    /\ LspIdle
    /\ scan_in \in [root : ScanRoots, tree : SUBSET ScanFiles]
    /\ scan_out = NotScanned

Discover ==
    /\ scan_out = NotScanned
    /\ scan_out' = << DiscoverFiles(scan_in.root, scan_in.tree) >>
    /\ UNCHANGED <<scan_in, indexing, result, answer, fileTools, parsing, validating>>

NextScan == Discover

SpecScan == InitScan /\ [][NextScan]_vars

(***************************************************************************)
(* The validation of lsp_tool at work on one file path and one content.    *)
(***************************************************************************)
InitLsp ==
    /\ QuietIndexing
    /\ FileToolsIdle
    /\ ParserIdle
    /\ ScanIdle
    /\ lsp_in \in LspInputs
    /\ lsp_out = NotValidated

ValidateCodeInShadowWorkspace ==
    /\ lsp_out = NotValidated
    /\ lsp_out' = << validate_code_in_shadow_workspace(lsp_in.file_path, lsp_in.new_content,
                                                       lsp_in.pyflakes) >>
    /\ UNCHANGED <<lsp_in, indexing, result, answer, fileTools, parsing, scanning>>

ValidateCodeTool ==
    /\ lsp_out = NotValidated
    /\ lsp_out' = << validate_code_tool(lsp_in.file_path, lsp_in.new_content,
                                        lsp_in.pyflakes) >>
    /\ UNCHANGED <<lsp_in, indexing, result, answer, fileTools, parsing, scanning>>

NextLsp == ValidateCodeInShadowWorkspace \/ ValidateCodeTool

SpecLsp == InitLsp /\ [][NextLsp]_vars

(***************************************************************************)
(* Two IndexingAgents at work on one store, each in a process of its own.  *)
(* Here the get-or-create of __init__ (58-72) is taken step by step: the   *)
(* get_collection that finds the collection or raises, and the             *)
(* create_collection of the except clause, which the store refuses when a  *)
(* collection of that name exists by then.                                 *)
(***************************************************************************)
\* lines 49-59: a new agent; get_collection("code_elements") returns the
\* handle or raises
GetCodeCollection(p) ==
    /\ Idle(p)
    /\ runs < MaxAgents
    /\ runs' = runs + 1
    /\ \E seed \in Seeds : hash_seed' = [hash_seed EXCEPT ![p] = seed]
    /\ pc' = [pc EXCEPT ![p] = IF "code_elements" \in collections
                                THEN "init" ELSE "create_code"]
    /\ code_files' = [code_files EXCEPT ![p] = {}]
    /\ indexed_files' = [indexed_files EXCEPT ![p] = <<>>]
    /\ code_elements' = [code_elements EXCEPT ![p] = <<>>]
    /\ errors' = [errors EXCEPT ![p] = <<>>]
    /\ failed_file' = [failed_file EXCEPT ![p] = <<>>]
    /\ UNCHANGED <<project_root, fs, store, edits, observed, aside>>

\* lines 60-64: create_collection("code_elements"); it raises out of
\* __init__ when the collection exists
CreateCodeCollection(p) ==
    /\ pc[p] = "create_code"
    /\ IF "code_elements" \in collections
       THEN pc' = [pc EXCEPT ![p] = "raised"] /\ UNCHANGED collections
       ELSE /\ pc' = [pc EXCEPT ![p] = "init"]
            /\ collections' = collections \cup {"code_elements"}
    /\ UNCHANGED <<project_root, fs, code_entries, file_entries, hash_seed, code_files,
                   indexed_files, code_elements, errors, failed_file, runs, edits, observed,
                   aside>>

\* lines 66-67: get_collection("file_summaries")
GetFileCollection(p) ==
    /\ pc[p] = "init"
    /\ pc' = [pc EXCEPT ![p] = IF "file_summaries" \in collections
                                THEN "ready" ELSE "create_files"]
    /\ UNCHANGED <<project_root, fs, store, hash_seed, code_files, indexed_files,
                   code_elements, errors, failed_file, runs, edits, observed, aside>>

\* lines 68-72: create_collection("file_summaries")
CreateFileCollection(p) ==
    /\ pc[p] = "create_files"
    /\ IF "file_summaries" \in collections
       THEN pc' = [pc EXCEPT ![p] = "raised"] /\ UNCHANGED collections
       ELSE /\ pc' = [pc EXCEPT ![p] = "ready"]
            /\ collections' = collections \cup {"file_summaries"}
    /\ UNCHANGED <<project_root, fs, code_entries, file_entries, hash_seed, code_files,
                   indexed_files, code_elements, errors, failed_file, runs, edits, observed,
                   aside>>

ConcurrentAgent(p) ==
    \/ GetCodeCollection(p)
    \/ CreateCodeCollection(p)
    \/ GetFileCollection(p)
    \/ CreateFileCollection(p)
    \/ StartIndexing(p)
    \/ \E rel \in RelFiles : IndexFile(p, rel)
    \/ \E rel \in RelFiles : IndexFileRaises(p, rel)
    \/ StoreAndReturn(p)
    \/ StoreRaises(p)

NextConcurrent == \E p \in Procs : ConcurrentAgent(p)

SpecConcurrent == Init /\ [][NextConcurrent]_vars

(***************************************************************************)
(* Claims.                                                                 *)
(***************************************************************************)

\* C1: two runs of index_codebase over an unchanged tree leave both
\* collections with the same ids and the same entry under each id, and
\* report the same total_elements.
C1_Idempotent ==
    Len(done_hist) = 2 =>
        /\ done_hist[1].code = done_hist[2].code
        /\ done_hist[1].files = done_hist[2].files
        /\ done_hist[1].total_elements = done_hist[2].total_elements

\* C2: when reading or parsing one discovered file fails, index_codebase
\* still returns its report, the failure is in the report's errors, and
\* every other discovered file is indexed.
C2_FailureIsRecorded ==
    \A p \in Procs :
        failed_file[p] # <<>> =>
            /\ pc[p] = "done"
            /\ errors[p] # <<>>
            /\ \A rel \in Discovered(fs) \ SeqToSet(failed_file[p]) :
                   rel \in SeqToSet(indexed_files[p])

\* C3: at every point of a run, also when it is interrupted or fails, a
\* file whose summary the run has written has all its elements of the run
\* in the store too.
C3_AllOrNothingPerFile ==
    \A p \in Procs :
        \A k \in 1..Len(code_elements[p]) :
            ElementEntry(code_elements[p][k]) \in code_entries

\* C4: a run interrupted after any number of its store writes, followed by
\* a run to completion over the unchanged tree, leaves both collections as
\* one uninterrupted run from the same initial store leaves them.
C4_RerunConverges ==
    \A p \in Procs :
        (pc[p] = "done" /\ base.state = "converged") =>
            LET single == FullRun(base.code, base.files, project_root, fs, hash_seed[p])
            IN  /\ code_entries = single.code
                /\ file_entries = single.files

C4_Witness ==
    /\ base.state = "converged"
    /\ base.written # {}
    /\ file_entries # base.files
    /\ code_entries # base.code

SameElementOtherContent(old, e) ==
    /\ old.metadata.file_path = e.file_path
    /\ old.metadata.name = e.name
    /\ old.metadata.element_type = e.element_type
    /\ old.metadata.content # e.content

C5_Step ==
    \A p \in Procs :
        (pc[p] = "files" /\ pc'[p] = "done") =>
            /\ Ids(code_entries) \subseteq Ids(code_entries')
            /\ \A k \in 1..Len(code_elements[p]) :
                   LET e == code_elements[p][k]
                   IN  /\ ElementId(e) \in Ids(code_entries')
                       /\ \A old \in code_entries :
                              SameElementOtherContent(old, e) => old.id # ElementId(e)
                       /\ ElementId(e) \notin Ids(code_entries) =>
                              Cardinality(Ids(code_entries')) > Cardinality(Ids(code_entries))

Queried(op) == IF op = "find_files_by_content" THEN file_entries ELSE code_entries

NotIndexedTexts == {"No code index found. Please run indexing first.",
                    "No file index found. Please run indexing first."}

\* C6: on a store whose collections were never created every search
\* operation returns the 'not indexed' sentinel and raises nothing; on
\* collections that exist but are empty it returns a 'no results' text,
\* which is not the sentinel.
C6_NotIndexedSentinel ==
    result.op # "none" =>
        /\ collections = {} =>
               /\ result.kind = "not_indexed"
               /\ result.text \in NotIndexedTexts
        /\ (HasCollections(collections) /\ Queried(result.op) = {} /\ result.fault = "none") =>
               /\ result.kind = "no_results"
               /\ result.text \notin NotIndexedTexts

C6_Witness ==
    /\ result.op = "find_files_by_content"
    /\ result.kind = "no_results"
    /\ HasCollections(collections)
    /\ file_entries = {}

UniqueById(entries) == \A e1, e2 \in entries : e1.id = e2.id => e1 = e2

\* C7: no collection holds two entries with one id, and for each relative
\* file path file_summaries holds at most one summary, the one computed by
\* the latest run that indexed the file.
C7_OneSummaryPerFile ==
    /\ UniqueById(code_entries)
    /\ UniqueById(file_entries)
    /\ \A rel \in RelFiles :
           LET stored == {e \in file_entries : e.metadata.file_path = rel}
           IN  IF last_summary[rel] = <<>> THEN stored = {}
               ELSE stored = {Entry(rel, last_summary[rel][1].summary, last_summary[rel][1])}

C7_Witness ==
    /\ \E e \in file_entries : e.id = PyFile /\ e.metadata.line_count = 2
    /\ \E c \in code_entries : c.metadata.name = <<"K">>

\* C8: none of the four search operations lets a failure of the embedding
\* or store call, or an unusable row, reach the caller as an exception.
C8_SearchNeverRaises == result.kind # "raised"

RECURSIVE SumLen(_)
SumLen(groups) ==
    IF groups = <<>> THEN 0 ELSE Len(Head(groups).elements) + SumLen(Tail(groups))

IndexedAs(path, rel) ==
    /\ path \in {rel, project_root \o rel}
    /\ \E e \in file_entries : e.id = rel
    /\ \E e \in code_entries : e.metadata.file_path = project_root \o rel

\* C9: get_file_structure, called with the path of an indexed file, returns
\* all stored elements of the file, grouped by kind with no empty group,
\* together with the file's summary: one path string selects both.
C9_StructureWithSummary ==
    \A rel \in RelFiles :
        (/\ result.op = "get_file_structure"
         /\ result.fault = "none"
         /\ IndexedAs(result.arg, rel)) =>
            /\ result.kind = "results"
            /\ result.info # <<>>
            /\ SumLen(result.rows) =
                   Cardinality({e \in code_entries : e.metadata.file_path = project_root \o rel})
            /\ \A g \in 1..Len(result.rows) : result.rows[g].elements # <<>>

FileTypeOf(path) == suffix(<<path[Len(path)]>>)

\* C10: semantic_search with a file-type filter T returns the nearest stored
\* elements of files of type T: each returned element is of such a file,
\* and stored elements of such files are returned.
C10_FileTypeFilter ==
    (/\ result.op \in {"semantic_search", "search_code_tool"}
     /\ result.fault = "none"
     /\ result.arg[1] # ""
     /\ \E e \in code_entries : FileTypeOf(e.metadata.file_path) = result.arg[1]) =>
        /\ result.kind = "results"
        /\ result.rows # <<>>
        /\ \A k \in 1..Len(result.rows) : FileTypeOf(result.rows[k].file_path) = result.arg[1]

\* the location the path resolves to is the project root or lies below it
Inside(path) ==
    LET loc == LocationOf(os_path_join(PROJECT_ROOT, path))
        root == LocationOf(PROJECT_ROOT)
    IN  Len(loc) >= Len(root) /\ SubSeq(loc, 1, Len(root)) = root

\* C11: for every path that resolves to a location outside the project
\* root, a sibling directory whose name begins with the root's name
\* included, _is_path_safe is false and read_file and write_file return the
\* 'outside the allowed project directory' error, reading and changing
\* nothing.
C11_OutsideRejected ==
    (tool_result.op # "none" /\ ~Inside(tool_result.path)) =>
        /\ ~_is_path_safe(tool_result.path)
        /\ tool_result.kind = "outside"
        /\ ~tool_result.changed

\* C12: read_file of a path inside the project root returns exactly the
\* content of the latest successful write_file to that path, whether the
\* file and its directory existed before it or not.
C12_WriteThenRead ==
    (/\ tool_result.op = "read_file"
     /\ tool_result.path = last_write.path
     /\ Inside(tool_result.path)) =>
        /\ tool_result.kind = "ok"
        /\ tool_result.text = last_write.content

\* C13: semantic_search(q, k) returns at most min(k, size of the elements
\* collection) results, in non-decreasing order of store distance; the rows
\* it skips leave the rows it returns in the order the store gave them.
C13_RankBound ==
    (result.op \in {"semantic_search", "search_code_tool"} /\ result.kind = "results") =>
        /\ Len(result.rows) <= Min(answer.n, Cardinality(code_entries))
        /\ \A j \in 1..(Len(result.rows) - 1) :
               /\ 1 - result.rows[j].similarity <= 1 - result.rows[j + 1].similarity
               /\ result.rows[j].index < result.rows[j + 1].index
        /\ \A j \in 1..Len(result.rows) :
               LET k == result.rows[j].index
               IN  /\ answer.arrays.metadatas[k] # <<>>
                   /\ result.rows[j].name = answer.arrays.metadatas[k][1].name
                   /\ 1 - result.rows[j].similarity = answer.arrays.distances[k].value

C13_Witness ==
    /\ result.op = "semantic_search"
    /\ result.fault \in {"bad_metadata", "bad_metadata_2"}
    /\ Len(answer.arrays.metadatas) = 3
    /\ Len(result.rows) = 2
    /\ result.rows[1].similarity > result.rows[2].similarity

\* the nodes of a kind in a syntax tree, in source order
RECURSIVE NodesOfType(_, _)
RECURSIVE NodesAmong(_, _)
NodesOfType(node, type) ==
    (IF node.type = type THEN <<node>> ELSE <<>>) \o NodesAmong(node.children, type)
NodesAmong(children, type) ==
    IF children = <<>> THEN <<>>
    ELSE NodesOfType(Head(children), type) \o NodesAmong(Tail(children), type)

\* C14: indexing a Python file yields, for every function definition in it,
\* exactly one element of kind 'function' with the function's name and the
\* 1-based first and last line of the definition; for the file with one
\* function foo on lines 3-6 with docstring 'hi' that is one function
\* element named foo with start_line 3, end_line 6 and docstring 'hi'.
C14_FunctionElements ==
    (parse_in.file_ext = ".py" /\ parse_out # NotParsed) =>
        LET defs == NodesOfType(tree_sitter_parse(parse_in.content), "function_definition")
            functions == SelectSeq(parse_out[1], LAMBDA e : e.element_type = "function")
        IN  /\ Len(functions) = Len(defs)
            /\ \A k \in 1..Len(defs) :
                   /\ functions[k].name = NameText(defs[k], SplitLines(parse_in.content))
                   /\ functions[k].start_line = defs[k].start_point[1] + 1
                   /\ functions[k].end_line = defs[k].end_point[1] + 1
            /\ parse_in.content = Text("pyfoo") =>
                   /\ Len(functions) = 1
                   /\ functions[1].name = <<"foo">>
                   /\ functions[1].start_line = 3
                   /\ functions[1].end_line = 6
                   /\ functions[1].docstring = <<"hi">>

\* a heading line: its trimmed form starts with the heading marker
IsHeading(line) ==
    LET trimmed == Strip(line, Whitespace)
    IN  trimmed # <<>> /\ Head(trimmed) = "#"

\* the number of lines of a text file: a final newline ends the last line
LineCount(content) ==
    IF content = <<>> THEN 0
    ELSE IF content[Len(content)] = "\n" THEN Len(SplitLines(content)) - 1
    ELSE Len(SplitLines(content))

\* C15: each section element of a markdown file starts on the line after
\* its heading and ends on the line before the next heading, or on the last
\* line of the file when it is the final section; the file with heading A
\* on line 1, body on 2-4, heading B on line 5 and body on 6-8 yields
\* exactly the sections A spanning 2-4 and B spanning 6-8.
C15_SectionSpans ==
    (parse_in.file_ext = ".md" /\ parse_out # NotParsed) =>
        LET lines == SplitLines(parse_in.content)
            sections == parse_out[1]
        IN  /\ \A k \in 1..Len(sections) :
                   LET e == sections[k]
                       later == {i \in 1..Len(lines) : i >= e.start_line /\ IsHeading(lines[i])}
                   IN  /\ e.element_type = "markdown_section"
                       /\ e.start_line > 1 => IsHeading(lines[e.start_line - 1])
                       /\ IF later = {} THEN e.end_line = LineCount(parse_in.content)
                          ELSE e.end_line + 1 \in later /\ \A i \in later : i > e.end_line
            /\ parse_in.content \in {JoinLines(TwoSections), JoinLines(TwoSections) \o <<"\n">>} =>
                   /\ Len(sections) = 2
                   /\ sections[1].name = <<"A">>
                   /\ sections[1].start_line = 2 /\ sections[1].end_line = 4
                   /\ sections[2].name = <<"B">>
                   /\ sections[2].start_line = 6 /\ sections[2].end_line = 8

\* how often line i is covered: by being a heading, and by each section
\* whose range holds it
Coverage(lines, sections, i) ==
    (IF IsHeading(lines[i]) THEN 1 ELSE 0)
        + Cardinality({k \in 1..Len(sections) :
                          sections[k].start_line <= i /\ i <= sections[k].end_line})

\* C16: the line ranges of the markdown_section elements of a file together
\* with its heading lines cover every line of the file exactly once.
C16_CoveredOnce ==
    (parse_in.file_ext = ".md" /\ parse_out # NotParsed) =>
        \A i \in 1..LineCount(parse_in.content) :
            Coverage(SplitLines(parse_in.content), parse_out[1], i) = 1

\* line i lies between two headings (or the ends of the text) with a line
\* that is not blank
InSectionWithContent(lines, i) ==
    \E j \in 1..Len(lines) :
        /\ Strip(lines[j], Whitespace) # <<>>
        /\ \A m \in Min(i, j)..(IF i < j THEN j ELSE i) : ~IsHeading(lines[m])

\* C16, amended: with the lines of content.split('\n'), the line ranges of
\* the markdown_section elements and the heading lines are disjoint, lie
\* within the text, and cover every line except those of a stretch between
\* headings that holds only blank lines, which no element covers.
C16_CoveredOnceButBlank ==
    (parse_in.file_ext = ".md" /\ parse_out # NotParsed) =>
        LET lines == SplitLines(parse_in.content)
            sections == parse_out[1]
        IN  /\ \A k \in 1..Len(sections) :
                   1 <= sections[k].start_line /\ sections[k].end_line <= Len(lines)
            /\ \A i \in 1..Len(lines) :
                   Coverage(lines, sections, i) =
                       IF IsHeading(lines[i]) \/ InSectionWithContent(lines, i) THEN 1 ELSE 0

C16_Witness ==
    /\ parse_in.file_ext = ".md"
    /\ parse_out # NotParsed
    /\ parse_out[1] # <<>>
    /\ \E i \in 1..Len(SplitLines(parse_in.content)) :
           Coverage(SplitLines(parse_in.content), parse_out[1], i) = 0

\* the contents of the elements one after the other
RECURSIVE ConcatContents(_)
ConcatContents(elements) ==
    IF elements = <<>> THEN <<>>
    ELSE Head(elements).content \o ConcatContents(Tail(elements))

\* C17: the text_chunk elements of a file routed to the chunk parser are
\* contiguous windows without overlap that span the file, and their
\* contents, concatenated in ascending window order, are the file's content.
C17_ChunksReproduce ==
    (parse_in.file_ext \notin ParserExts \cup {".md"} /\ parse_out # NotParsed) =>
        LET chunks == parse_out[1]
            lines == SplitLines(parse_in.content)
        IN  /\ \A k \in 1..Len(chunks) : chunks[k].element_type = "text_chunk"
            /\ \A k \in 1..(Len(chunks) - 1) :
                   chunks[k + 1].start_line = chunks[k].end_line + 1
            /\ chunks # <<>> =>
                   chunks[1].start_line = 1 /\ chunks[Len(chunks)].end_line = Len(lines)
            /\ ConcatContents(chunks) = parse_in.content

\* C18: whenever the documents, metadata and distances arrays the store
\* returns for one query do not all have the same length, an empty array
\* beside non-empty ones included, semantic_search and find_files_by_content
\* return the 'Inconsistent ... data' message.
C18_InconsistentReported ==
    (/\ result.op \in {"semantic_search", "search_code_tool", "find_files_by_content"}
     /\ ~(Len(answer.arrays.documents) = Len(answer.arrays.metadatas)
          /\ Len(answer.arrays.metadatas) = Len(answer.arrays.distances))) =>
        /\ result.kind = "inconsistent"
        /\ result.text \in {"Inconsistent result data for query",
                            "Inconsistent file data for query"}

\* the rows of the store's answer whose metadata is a key-value record
WellFormed(metadatas) == {k \in 1..Len(metadatas) : metadatas[k] # <<>>}

\* C19: when some rows the store returns have a metadata that is no
\* key-value record, the four search operations skip exactly those rows and
\* report every other row; the call neither fails nor reports 'no results'.
C19_MalformedRowsSkipped ==
    (/\ result.op # "none"
     /\ result.fault \in {"bad_metadata", "bad_metadata_2"}
     /\ answer.arrays.metadatas # <<>>) =>
        LET good == WellFormed(answer.arrays.metadatas)
        IN  /\ result.kind = "results"
            /\ IF result.op = "get_file_structure"
               THEN SumLen(result.rows) = Cardinality(good)
               ELSE /\ Len(result.rows) = Cardinality(good)
                    /\ \A k \in good : \E j \in 1..Len(result.rows) :
                           /\ result.rows[j].index = k
                           /\ result.rows[j].file_path = answer.arrays.metadatas[k][1].file_path

C19_Witness ==
    /\ result.op \in {"find_elements_by_type", "get_file_structure", "find_files_by_content"}
    /\ result.fault \in {"bad_metadata", "bad_metadata_2"}
    /\ Len(answer.arrays.metadatas) = 2
    /\ Cardinality(WellFormed(answer.arrays.metadatas)) = 1
    /\ result.kind = "results"
    /\ result.rows # <<>>

\* C20: every element an indexing run stores carries as file_path the
\* file's path relative to the indexed root, the same string as the
\* file_path and id of the file's summary in file_summaries.
C20_RelativeFilePath ==
    \A e \in code_entries :
        /\ e.metadata.file_path \in RelFiles
        /\ \E f \in file_entries :
               f.id = e.metadata.file_path /\ f.metadata.file_path = e.metadata.file_path

\* the file has one of the supported extensions
Supported(rel) == \E ext \in code_extensions : endswith(rel[Len(rel)], ext)

\* C21: index_codebase indexes exactly the files under the root whose
\* extension is supported and whose path below the root holds no ignored
\* directory name, each exactly once, whatever the directories above the
\* root are called.
C21_DiscoveryBelowRoot ==
    scan_out # NotScanned =>
        \A rel \in scan_in.tree :
            scan_out[1][rel] = IF Supported(rel) /\ ~InIgnoredDir(rel) THEN 1 ELSE 0

SameTriple(a, b) ==
    a.name = b.name /\ a.element_type = b.element_type /\ a.content = b.content

\* C22: an element's identity is a function of its (name, kind, content)
\* triple only: elements with equal triples have equal identities, and two
\* elements of one file whose content differs have different identities.
C22_IdentityOfTriple ==
    parse_out # NotParsed =>
        \A j, k \in 1..Len(parse_out[1]) :
            LET a == parse_out[1][j]
                b == parse_out[1][k]
            IN  /\ SameTriple(a, b) => a.hash = b.hash
                /\ a.content # b.content => a.hash # b.hash

\* C22, amended: elements with equal triples have equal identities, and two
\* elements of equal name and kind whose content differs have different
\* identities; elements of different names may share one.
C22_IdentityOfTripleSameName ==
    parse_out # NotParsed =>
        \A j, k \in 1..Len(parse_out[1]) :
            LET a == parse_out[1][j]
                b == parse_out[1][k]
            IN  /\ SameTriple(a, b) => a.hash = b.hash
                /\ (a.name = b.name /\ a.element_type = b.element_type
                    /\ a.content # b.content) => a.hash # b.hash

C22_Witness ==
    /\ parse_out # NotParsed
    /\ \E j, k \in 1..Len(parse_out[1]) :
           LET a == parse_out[1][j]
               b == parse_out[1][k]
           IN  /\ a.name = b.name /\ a.element_type = b.element_type
               /\ a.content # b.content /\ a.hash # b.hash
    /\ \E j, k \in 1..Len(parse_out[1]) :
           j # k /\ parse_out[1][j].hash = parse_out[1][k].hash

\* the text of lines first..last of the file, joined by newlines
SourceLines(content, first, last) == JoinLines(Slice(SplitLines(content), first - 1, last))

\* C23: the content of every emitted element is exactly the source text of
\* lines start_line..end_line of the file, nothing added or trimmed, for
\* grammar elements, markdown sections and text chunks alike.
C23_ContentIsSourceLines ==
    parse_out # NotParsed =>
        \A k \in 1..Len(parse_out[1]) :
            LET e == parse_out[1][k]
            IN  e.content = SourceLines(parse_in.content, e.start_line, e.end_line)

\* neither a heading marker nor whitespace at either end
Clean(name) ==
    /\ \A k \in 1..Len(name) : name[k] # "#"
    /\ name # <<>> => name[1] \notin Whitespace /\ name[Len(name)] \notin Whitespace

\* the lines before the first heading of a text
RECURSIVE BeforeFirstHeading(_)
BeforeFirstHeading(lines) ==
    IF lines = <<>> \/ IsHeading(Head(lines)) THEN <<>>
    ELSE <<Head(lines)>> \o BeforeFirstHeading(Tail(lines))

\* C24: the section name derived from a heading line, with or without
\* leading whitespace, holds neither the heading marker nor surrounding
\* whitespace; content before the first heading is collected under the
\* name 'Introduction'.
C24_HeadingNames ==
    (parse_in.file_ext = ".md" /\ parse_out # NotParsed) =>
        LET lines == SplitLines(parse_in.content)
            sections == parse_out[1]
            intro == BeforeFirstHeading(lines)
        IN  /\ \A k \in 1..Len(sections) : Clean(sections[k].name)
            /\ HasContent(intro) =>
                   /\ sections # <<>>
                   /\ sections[1].name = <<"Introduction">>
                   /\ sections[1].start_line = 1

\* the statements of the body of a class or function definition
BodyOf(node) == SelectSeq(node.children, LAMBDA c : c.type = "block")[1].children

\* the text of a string literal of one line, without its quotes
LiteralText(string, lines) ==
    Strip(Slice(lines[string.start_point[1] + 1], string.start_point[2], string.end_point[2]),
          {DQ, "'"})

\* the text of the first statement of the body when that statement is a
\* string literal and nothing else, and no text otherwise
FirstStatementString(node, lines) ==
    LET first == BodyOf(node)[1]
    IN  IF /\ first.type = "expression_statement"
           /\ Len(first.children) = 1
           /\ first.children[1].type = "string"
        THEN LiteralText(first.children[1], lines)
        ELSE <<>>

\* C25: the docstring of a Python class or function element is the text of
\* the first statement of the body when that statement is only a string
\* literal, and empty otherwise; a string statement after another first
\* statement is never taken.
C25_DocstringIsFirstStatement ==
    (parse_in.file_ext = ".py" /\ parse_out # NotParsed) =>
        LET tree == tree_sitter_parse(parse_in.content)
            lines == SplitLines(parse_in.content)
            defs == NodesOfType(tree, "class_definition")
                        \o NodesOfType(tree, "function_definition")
        IN  /\ \A k \in 1..Len(parse_out[1]) :
                   LET e == parse_out[1][k]
                   IN  e.element_type \in {"class", "function"} =>
                           \E d \in 1..Len(defs) :
                               /\ defs[d].start_point[1] + 1 = e.start_line
                               /\ e.docstring = FirstStatementString(defs[d], lines)

\* the nodes of a syntax tree whose type is among `types`, in depth-first
\* pre-order
RECURSIVE DeclNodes(_, _)
RECURSIVE DeclNodesAmong(_, _)
DeclNodes(node, types) ==
    (IF node.type \in types THEN <<node>> ELSE <<>>) \o DeclNodesAmong(node.children, types)
DeclNodesAmong(children, types) ==
    IF children = <<>> THEN <<>>
    ELSE DeclNodes(Head(children), types) \o DeclNodesAmong(Tail(children), types)

\* C26: for a file handled by the grammar parser every syntax-tree node
\* whose type is one of the declaration kinds the parser matches for the
\* language yields exactly one element spanning the node's lines, the
\* elements being in depth-first pre-order; import nodes yield an element
\* named 'import'.
C26_OneElementPerDeclaration ==
    (parse_in.file_ext \in ParserExts /\ parse_out # NotParsed) =>
        LET decls == DeclNodes(tree_sitter_parse(parse_in.content),
                               IF parse_in.file_ext = ".py" THEN PyDeclTypes ELSE JsDeclTypes)
            elements == parse_out[1]
        IN  /\ Len(elements) = Len(decls)
            /\ \A k \in 1..Len(decls) :
                   /\ elements[k].start_line = decls[k].start_point[1] + 1
                   /\ elements[k].end_line = decls[k].end_point[1] + 1
                   /\ decls[k].type \in {"import_statement", "import_from_statement"} =>
                          elements[k].name = <<"import">>

\* the run of p has collected the elements of all its files
BatchComplete(p) ==
    /\ pc[p] \in {"files", "done", "raised"}
    /\ code_files[p] = {}
    /\ failed_file[p] = <<>>

\* C27: within one indexing run the storage keys of all elements submitted
\* to the store are pairwise distinct, also when two declarations start on
\* one line; after a run on an empty store the elements collection holds as
\* many entries as the run reports in total_elements.
C27_DistinctKeys ==
    \A p \in Procs :
        BatchComplete(p) =>
            /\ UniqueIds(ElementBatch(code_elements[p]))
            /\ pc[p] # "raised"
            /\ (pc[p] = "done" /\ runs = 1) =>
                   Cardinality(code_entries) = Len(code_elements[p])

\* C28: the validation reports valid = false with error_count >= 1 whenever
\* the diagnostics computed for the new content report at least one error,
\* and valid = true only when they report none; validate_code_tool passes
\* the code on the same terms.
C28_ErrorsInvalidate ==
    lsp_out # NotValidated =>
        LET out == lsp_out[1]
        IN  /\ out.diagnostics.error_count >= 1 =>
                   ~out.result.valid /\ out.result.error_count >= 1 /\ ~out.passed
            /\ (out.result.valid \/ out.passed) => out.diagnostics.error_count = 0

\* the files the elements of a collection are of, by their path from the root
FilesOfElements(entries) ==
    {rel \in RelFiles : \E e \in entries : e.metadata.file_path = project_root \o rel}

\* C29: after every completed indexing run file_summaries holds a summary
\* exactly for the files discovered by that run and code_elements holds no
\* element of a file absent from it: what was stored for a file that has
\* been deleted since is gone.
C29_OnlyCurrentFiles ==
    done_hist # <<>> =>
        /\ Ids(file_entries) = Discovered(fs)
        /\ FilesOfElements(code_entries) \subseteq Discovered(fs)

C29_NoKeyRemoved ==
    /\ Ids(file_entries) \subseteq Ids(file_entries')
    /\ Ids(code_entries) \subseteq Ids(code_entries')

\* C29, amended: after every completed indexing run file_summaries holds a
\* summary for every file discovered by that run, and no step of a run
\* removes a key from either collection: the summary and the elements of a
\* file deleted from the tree stay in the store.
C29_CurrentFilesAndStale ==
    /\ [](done_hist # <<>> => Discovered(fs) \subseteq Ids(file_entries))
    /\ [][C29_NoKeyRemoved]_vars

C29_Witness ==
    /\ done_hist # <<>>
    /\ fs[MdFile] = "absent"
    /\ MdFile \in Ids(file_entries)
    /\ MdFile \in FilesOfElements(code_entries)
    /\ PyFile \in Ids(file_entries)

\* a single run over the tree completes: every file can be read and no two
\* elements of a file get one storage key
SingleRunCompletes(tree) == \A rel \in RelFiles : tree[rel] \notin {"unreadable", "pytwo"}

\* C30: two indexing agents constructed and run concurrently against one
\* store over one unchanged tree, their get-or-create steps and store
\* writes interleaved in any order, both complete without error and leave
\* both collections with the contents a single run leaves.
C30_ConcurrentAgentsComplete ==
    SingleRunCompletes(fs) =>
        /\ \A p \in Procs : pc[p] # "raised"
        /\ (\A p \in Procs : pc[p] = "done") =>
               \E seed \in Seeds :
                   LET single == FullRun({}, {}, project_root, fs, seed)
                   IN  code_entries = single.code /\ file_entries = single.files

=============================================================================
